---- MODULE Spec2Model ----
(***************************************************************************)
(* A model of the block-ingestion core of nearcore's chain crate           *)
(* (chain/chain/src/chain.rs): the orphan pool, Chain::process_block and   *)
(* ChainUpdate::process_block, the head updates, header sync, challenges,  *)
(* the heads reset after state sync, and the garbage collector.            *)
(*                                                                         *)
(* Block hashes are small integers.  The blocks that the network can       *)
(* deliver are a fixed family whose height, previous hash and epoch are    *)
(* tables; the chain object is one record that the operations thread       *)
(* through their steps exactly as the Rust code threads `&mut self`.       *)
(***************************************************************************)
EXTENDS Integers, Sequences, FiniteSets, TLC

\* ------------------------------------------------------------------------
\* Program constants (chain.rs, top of file)
\* ------------------------------------------------------------------------
MAX_ORPHAN_SIZE == 1024
MAX_ORPHAN_AGE_SECS == 300
NUM_ORPHAN_ANCESTORS_CHECK == 3
MAX_ORPHAN_MISSING_CHUNKS == 5
GC_FORK_CLEAN_STEP == 1000

\* ------------------------------------------------------------------------
\* Bounds of the model
\* ------------------------------------------------------------------------
\* Seconds the clock advances in one Tick, and the last instant of the clock.
ClockStep == 300
MaxClock == 300
\* Number of orphans the pool already holds when the SpecPool runs start.
NumFillers == 1021
\* Number of sibling orphans the pool already holds when the SpecCrowd runs
\* start.
NumCrowd == 301
\* Blocks the garbage collector may clear in one clear_data call.
GcBlocksLimit == 2

\* ------------------------------------------------------------------------
\* Small helpers
\* ------------------------------------------------------------------------
Range(s) == {s[i] : i \in DOMAIN s}

MaxOf(S) == CHOOSE x \in S : \A y \in S : y <= x

MinOf(S) == CHOOSE x \in S : \A y \in S : x <= y

Restrict(f, S) == [x \in S |-> f[x]]

\* ------------------------------------------------------------------------
\* The blocks of the universe
\* ------------------------------------------------------------------------
Genesis == 0

\* CryptoHash::default(): the prev hash of genesis, and "no final block yet".
DefaultHash == 12

\* The hash of a block that peers never deliver.
UnknownHash == 11

\* Blocks 1..10 are the blocks peers may deliver.  1-2-3-4-5-6 is one chain
\* (height 6 is skipped: block 6 sits at height 7), block 7 is a fork that
\* leaves the chain after block 1 at the height of block 2, block 8
\* descends from the block that is never delivered, block 9 is a sibling of
\* block 3 made by a producer that lies about the state of shard 0, and
\* block 10 is one more sibling of block 3, valid in shard 0.
Blocks == 1..10

Hashes == 0..12

HeightTable == <<1, 2, 3, 4, 5, 7, 2, 1, 3, 3>>

PrevTable == <<0, 1, 2, 3, 4, 5, 1, 11, 2, 2>>

EpochTable == <<0, 0, 1, 1, 1, 2, 0, 0, 1, 1>>

\* Filler orphans: hashes from FillBase on, four per height from height 2
\* upwards, each the child of its own never-delivered parent.
FillBase == 100

Fillers == FillBase..(FillBase + NumFillers - 1)

FillParentBase == 10000

IsFiller(b) == b >= FillBase /\ b < FillParentBase

\* One more orphan of the same kind that arrives later: it sits at the
\* height of the last filler, the highest in the pool.
LateOrphan == FillBase + NumFillers

\* An orphan far above the others that names the prev of the first filler
\* as its prev: a block that was produced after many skipped heights.
TallOrphan == FillParentBase - 1

\* Twig orphans: descendants of block 8, whose prev is never delivered.
\* The twigs 20 and 21 are children of block 8, 22 is the child of 20, 23
\* the child of 21 and 24 the child of 22, each one height above its prev.
Twigs == 20..24

TwigPrevTable == <<8, 8, 20, 21, 22>>

TwigHeightTable == <<2, 2, 3, 3, 4>>

\* Crowd orphans: hashes from CrowdBase on, blocks at height 2 that all
\* name block 1 as their prev, as a producer signs them who equivocates.
CrowdBase == 20000

IsCrowd(b) == b >= CrowdBase

\* A block that builds on the fork block 7, one height above it.
ForkChild == 25

\* BlockHeader::height
Height(b) ==
  IF b \in Twigs THEN TwigHeightTable[b - 19]
  ELSE IF b = ForkChild THEN 3
  ELSE IF IsFiller(b) THEN 2 + ((b - FillBase) \div 4)
  ELSE IF IsCrowd(b) THEN 2
  ELSE IF b \in Blocks THEN HeightTable[b]
  ELSE 0

\* BlockHeader::prev_hash
Prev(b) ==
  IF b \in Twigs THEN TwigPrevTable[b - 19]
  ELSE IF b = ForkChild THEN 7
  ELSE IF b = TallOrphan THEN FillParentBase + FillBase
  ELSE IF IsFiller(b) THEN FillParentBase + b
  ELSE IF IsCrowd(b) THEN 1
  ELSE IF b \in Blocks THEN PrevTable[b]
  ELSE DefaultHash

\* BlockHeader::epoch_id
Epoch(b) ==
  IF IsFiller(b) THEN 3
  ELSE IF b \in Blocks THEN EpochTable[b]
  ELSE 0

\* RuntimeAdapter::is_next_block_epoch_start: the blocks that close an epoch,
\* which are those whose last final block is at or above the height where
\* their epoch started (the epochs start at the heights 0, 3 and 7).
is_next_block_epoch_start(b) == b \in {2, 5, 7}

\* RuntimeAdapter::get_epoch_id_from_prev_block
get_epoch_id_from_prev_block(p) ==
  IF is_next_block_epoch_start(p) THEN Epoch(p) + 1 ELSE Epoch(p)

\* The shards, and the shards this node tracks in each epoch.
Shards == {0, 1}

Care(e, s) ==
  CASE e = 0 -> TRUE
    [] e = 1 -> s = 0
    [] OTHER -> s = 1

\* RuntimeAdapter::cares_about_shard(me, parent_hash, shard_id, true)
cares_about_shard(parent_hash, s) == Care(get_epoch_id_from_prev_block(parent_hash), s)

\* RuntimeAdapter::will_care_about_shard(me, parent_hash, shard_id, true)
will_care_about_shard(parent_hash, s) ==
  Care(get_epoch_id_from_prev_block(parent_hash) + 1, s)

\* BlockHeader::last_ds_final_block and BlockHeader::last_final_block of a
\* valid header: the values validate_header expects from the prev header.
RECURSIVE last_ds_final_block(_)
last_ds_final_block(b) ==
  IF b \notin Blocks \/ Prev(b) \notin (Blocks \cup {Genesis}) THEN DefaultHash
  ELSE IF Height(Prev(b)) + 1 = Height(b) THEN Prev(b)
  ELSE last_ds_final_block(Prev(b))

RECURSIVE last_final_block(_)
last_final_block(b) ==
  IF b \notin Blocks \/ Prev(b) \notin (Blocks \cup {Genesis}) THEN DefaultHash
  ELSE IF /\ Height(Prev(b)) + 1 = Height(b)
          /\ last_ds_final_block(Prev(b)) = Prev(Prev(b))
    THEN Prev(Prev(b))
  ELSE last_final_block(Prev(b))

\* The first block of the epoch of b.
RECURSIVE epoch_first_block(_)
epoch_first_block(b) ==
  IF b \notin Blocks THEN Genesis
  ELSE IF is_next_block_epoch_start(Prev(b)) THEN b
  ELSE epoch_first_block(Prev(b))

\* RuntimeAdapter::get_gc_stop_height: the runtime keeps two epochs, so the
\* stop height is the height at which the epoch before the one of the head
\* started, and the genesis height when there is no such epoch.
get_gc_stop_height(head_hash) ==
  IF epoch_first_block(head_hash) \notin Blocks THEN 0
  ELSE Height(epoch_first_block(Prev(epoch_first_block(head_hash))))

\* Chain::epoch_length, from the chain genesis
epoch_length == 3

\* ------------------------------------------------------------------------
\* OrphanBlockPool
\* ------------------------------------------------------------------------
\* OrphanBlockPool::new
OrphanBlockPool_new ==
  [ orphans |-> <<>>,
    orphans_requested_missing_chunks |-> {},
    height_idx |-> <<>>,
    prev_hash_idx |-> <<>>,
    evicted |-> 0 ]

\* HashMap::entry(k).or_default().push(v)
entry_push(idx, k, v) ==
  IF k \in DOMAIN idx
    THEN [idx EXCEPT ![k] = Append(@, v)]
    ELSE (k :> <<v>>) @@ idx

\* HashMap::retain(|_, xs| xs.iter().any(|x| !removed.contains(x)))
retain_any(idx, removed) ==
  Restrict(idx, {k \in DOMAIN idx : \E i \in DOMAIN idx[k] : idx[k][i] \notin removed})

\* The loop of OrphanBlockPool::add over the heights in descending order:
\* the whole entry of the highest height goes, then the loop stops as soon
\* as the pool is below MAX_ORPHAN_SIZE.
RECURSIVE evict_heights(_, _, _, _)
evict_heights(orphans, hidx, removed, hs) ==
  IF hs = {} THEN [orphans |-> orphans, height_idx |-> hidx, removed |-> removed]
  ELSE
    LET h == MaxOf(hs)
        gone == Range(hidx[h])
        o2 == Restrict(orphans, (DOMAIN orphans) \ gone)
        h2 == Restrict(hidx, (DOMAIN hidx) \ {h})
        r2 == removed \cup gone
    IN IF Cardinality(DOMAIN o2) < MAX_ORPHAN_SIZE
         THEN [orphans |-> o2, height_idx |-> h2, removed |-> r2]
         ELSE evict_heights(o2, h2, r2, hs \ {h})

\* add without the eviction that follows an overflow.
add_unbounded(pool, block_hash, requested_missing_chunks, now) ==
  [ orphans |-> (block_hash :> now) @@ pool.orphans,
    orphans_requested_missing_chunks |->
      IF requested_missing_chunks
        THEN pool.orphans_requested_missing_chunks \cup {block_hash}
        ELSE pool.orphans_requested_missing_chunks,
    height_idx |-> entry_push(pool.height_idx, Height(block_hash), block_hash),
    prev_hash_idx |-> entry_push(pool.prev_hash_idx, Prev(block_hash), block_hash),
    evicted |-> pool.evicted ]

\* OrphanBlockPool::add.  `orphans` maps a hash to the instant it was added.
add(pool, block_hash, requested_missing_chunks, now) ==
  LET hidx == entry_push(pool.height_idx, Height(block_hash), block_hash)
      pidx == entry_push(pool.prev_hash_idx, Prev(block_hash), block_hash)
      orph == (block_hash :> now) @@ pool.orphans
      req  == IF requested_missing_chunks
                THEN pool.orphans_requested_missing_chunks \cup {block_hash}
                ELSE pool.orphans_requested_missing_chunks
  IN IF Cardinality(DOMAIN orph) > MAX_ORPHAN_SIZE
       THEN
         LET old_len == Cardinality(DOMAIN orph)
             aged == {x \in DOMAIN orph : ~(now - orph[x] < MAX_ORPHAN_AGE_SECS)}
             kept == Restrict(orph, (DOMAIN orph) \ aged)
             ev == evict_heights(kept, hidx, aged, DOMAIN hidx)
         IN [ orphans |-> ev.orphans,
              orphans_requested_missing_chunks |-> req \ ev.removed,
              height_idx |-> retain_any(ev.height_idx, ev.removed),
              prev_hash_idx |-> retain_any(pidx, ev.removed),
              evicted |-> pool.evicted + (old_len - Cardinality(DOMAIN ev.orphans)) ]
       ELSE
         [ orphans |-> orph,
           orphans_requested_missing_chunks |-> req,
           height_idx |-> hidx,
           prev_hash_idx |-> pidx,
           evicted |-> pool.evicted ]

\* OrphanBlockPool::contains
contains(pool, hash) == hash \in DOMAIN pool.orphans

\* The orphans that OrphanBlockPool::remove_by_prev_hash returns, in order:
\* the hashes listed under prev_hash that are still in the pool.
RECURSIVE filter_live(_, _)
filter_live(hs, live) ==
  IF hs = <<>> THEN <<>>
  ELSE IF Head(hs) \in live
    THEN <<Head(hs)>> \o filter_live(Tail(hs), live \ {Head(hs)})
    ELSE filter_live(Tail(hs), live)

removed_by_prev_hash(pool, prev_hash) ==
  IF prev_hash \in DOMAIN pool.prev_hash_idx
    THEN filter_live(pool.prev_hash_idx[prev_hash], DOMAIN pool.orphans)
    ELSE <<>>

\* OrphanBlockPool::remove_by_prev_hash: the pool it leaves.
remove_by_prev_hash(pool, prev_hash) ==
  IF prev_hash \in DOMAIN pool.prev_hash_idx
    THEN
      LET removed_hashes == Range(pool.prev_hash_idx[prev_hash])
      IN [ pool EXCEPT
             !.prev_hash_idx = Restrict(@, (DOMAIN @) \ {prev_hash}),
             !.orphans_requested_missing_chunks = @ \ removed_hashes,
             !.orphans = Restrict(@, (DOMAIN @) \ removed_hashes),
             !.height_idx = retain_any(@, removed_hashes) ]
    ELSE [pool EXCEPT !.height_idx = retain_any(@, {})]

\* OrphanBlockPool::can_request_missing_chunks_for_orphan
can_request_missing_chunks_for_orphan(pool, block_hash) ==
  /\ Cardinality(pool.orphans_requested_missing_chunks) < MAX_ORPHAN_MISSING_CHUNKS
  /\ block_hash \notin pool.orphans_requested_missing_chunks

\* OrphanBlockPool::mark_missing_chunks_requested_for_orphan
mark_missing_chunks_requested_for_orphan(pool, block_hash) ==
  [pool EXCEPT !.orphans_requested_missing_chunks = @ \cup {block_hash}]

\* ------------------------------------------------------------------------
\* The chain: ChainStore columns, the pools, and what ChainStoreUpdate does
\* ------------------------------------------------------------------------
NoTip == 0 - 1

\* The genesis state root of a shard.
GenesisRoot(s) == s + 1

\* Chain::new: genesis is stored with its header and a ChunkExtra per shard,
\* and is head, header head and final head.
Chain_new ==
  [ blocks |-> {Genesis},
    headers |-> {Genesis},
    refcount |-> [h \in Hashes |-> 0],
    chunk_extras |-> [k \in {<<Genesis, s>> : s \in Shards} |-> GenesisRoot(k[2])],
    chunks |-> {Genesis} \cup (Blocks \ {5}),
    head |-> Genesis,
    header_head |-> Genesis,
    final_head |-> Genesis,
    tail |-> 0,
    fork_tail |-> 0,
    challenged |-> {},
    blocks_to_catchup |-> {},
    processed_heights |-> {},
    clock |-> 0,
    panicked |-> FALSE,
    orphans |-> OrphanBlockPool_new,
    blocks_with_missing_chunks |-> {},
    store_fails |-> FALSE,
    events |-> <<>>,
    state_headers |-> {},
    state_parts |-> {} ]

\* The callbacks handed to Chain::process_block and to the calls built on
\* it are the caller's: `events` lists the ones invoked by the call that is
\* running, in order, and the chain keeps nothing of them once it returns.
AcceptedBlock(hash, status, reorg) ==
  [cb |-> "block_accepted", hash |-> hash, status |-> status, reorg |-> reorg]

BlockMissingChunks(block_hash) ==
  [cb |-> "block_misses_chunks", hash |-> block_hash, status |-> "", reorg |-> DefaultHash]

OrphanMissingChunks(block_hash) ==
  [cb |-> "orphan_misses_chunks", hash |-> block_hash, status |-> "", reorg |-> DefaultHash]

emit(st, event) == [st EXCEPT !.events = Append(@, event)]

returned(st) == [st EXCEPT !.events = <<>>]

\* A result of a chain operation: Ok(Some(tip)), Ok(None) or Err(kind).
OkTip(st, tip) == [ok |-> TRUE, st |-> st, tip |-> tip, err |-> ""]

OkNone(st) == [ok |-> TRUE, st |-> st, tip |-> NoTip, err |-> ""]

Err(st, kind) == [ok |-> FALSE, st |-> st, tip |-> NoTip, err |-> kind]

\* ChainStoreAccess::block_exists
block_exists(st, h) == h \in st.blocks

\* ChainStoreAccess::get_block_header(h).is_ok()
header_exists(st, h) == h \in st.headers

\* ChainStoreAccess::get_block_refcount
get_block_refcount(st, h) == IF h \in Hashes THEN st.refcount[h] ELSE 0

\* ChainStoreUpdate::inc_block_refcount
inc_block_refcount(st, h) ==
  IF h \in Hashes THEN [st EXCEPT !.refcount[h] = @ + 1] ELSE st

\* The refcount dropped to zero whatever it was: what the walk of the forks
\* cleaning is tested against.
dec_block_refcount_to_zero(st, h) ==
  IF h \in Hashes THEN [st EXCEPT !.refcount[h] = 0] ELSE st

\* ChainStoreUpdate::dec_block_refcount
dec_block_refcount(st, h) ==
  IF h \in Hashes /\ st.refcount[h] > 0 THEN [st EXCEPT !.refcount[h] = @ - 1] ELSE st

\* ChainStoreUpdate::save_block: the block body
store_save_block(st, b) == [st EXCEPT !.blocks = @ \cup {b}]

\* ChainStoreUpdate::save_block_header
save_block_header(st, b) == [st EXCEPT !.headers = @ \cup {b}]

\* ChainStoreAccess::get_all_block_hashes_by_height: the stored blocks of a height
get_all_block_hashes_by_height(st, h) == {b \in st.blocks : Height(b) = h}

\* The block of height h on the chain that ends in `tip`, or NoTip.
RECURSIVE ancestor_at(_, _)
ancestor_at(tip, h) ==
  IF tip \notin (Blocks \cup {Genesis}) \/ Height(tip) < h THEN NoTip
  ELSE IF Height(tip) = h THEN tip
  ELSE ancestor_at(Prev(tip), h)

\* ChainStoreAccess::get_block_hash_by_height: the height index follows the
\* header head's chain.
get_block_hash_by_height(st, h) == ancestor_at(st.header_head, h)

\* ChainStoreUpdate::update_height_if_not_challenged: walking back from
\* `hash` to the first block that is already on the indexed chain, no
\* challenged block may be met and every header must be there.
RECURSIVE update_height_ok(_, _)
update_height_ok(st, hash) ==
  IF ~header_exists(st, hash) THEN FALSE
  ELSE IF get_block_hash_by_height(st, Height(hash)) = hash THEN TRUE
  ELSE IF hash \in st.challenged THEN FALSE
  ELSE update_height_ok(st, Prev(hash))

\* ChainStoreUpdate::save_body_head
save_body_head(st, tip) == [st EXCEPT !.head = tip]

\* ChainStoreUpdate::save_header_head_if_not_challenged
save_header_head_if_not_challenged(st, tip) ==
  IF Height(tip) > 0 /\ ~update_height_ok(st, Prev(tip))
    THEN Err(st, "ChallengedBlockOnChain")
    ELSE OkNone([st EXCEPT !.header_head = tip])

\* ChainStoreUpdate::save_head
save_head(st, tip) == save_header_head_if_not_challenged(save_body_head(st, tip), tip)

\* ChainStoreUpdate::save_final_head
save_final_head(st, tip) == [st EXCEPT !.final_head = tip]

\* ChainStoreUpdate::update_tail
update_tail(st, height) == [st EXCEPT !.tail = height]

\* ChainStoreUpdate::update_fork_tail
update_fork_tail(st, height) == [st EXCEPT !.fork_tail = height]

\* ChainStoreUpdate::save_block_height_processed
save_block_height_processed(st, height) ==
  [st EXCEPT !.processed_heights = @ \cup {height}]

\* ChainStoreUpdate::add_block_to_catchup
add_block_to_catchup(st, prev_hash, block_hash) ==
  [st EXCEPT !.blocks_to_catchup = @ \cup {<<prev_hash, block_hash>>}]

\* ChainStoreAccess::get_blocks_to_catchup
get_blocks_to_catchup(st, prev_hash) ==
  {p[2] : p \in {q \in st.blocks_to_catchup : q[1] = prev_hash}}

\* ChainStoreUpdate::save_challenged_block
save_challenged_block(st, h) == [st EXCEPT !.challenged = @ \cup {h}]

\* ------------------------------------------------------------------------
\* ChainUpdate: heads
\* ------------------------------------------------------------------------
\* ChainUpdate::update_header_head_if_not_challenged
update_header_head_if_not_challenged(st, header) ==
  IF Height(header) > Height(st.header_head)
    THEN save_header_head_if_not_challenged(st, header)
    ELSE OkNone(st)

\* ChainUpdate::update_final_head_from_block
update_final_head_from_block(st, header) ==
  LET lfb == last_final_block(header)
  IN IF ~header_exists(st, lfb) THEN st
     ELSE IF Height(lfb) > Height(st.final_head) THEN save_final_head(st, lfb)
     ELSE st

\* The head replaced by whatever block was accepted last: what the order of
\* the heads is tested against.
update_head_to_last(st, header) ==
  OkTip(save_body_head(update_final_head_from_block(st, header), header), header)

\* The head replaced by a block that is as high as it: what the strict
\* comparison of the heights is tested against.
update_head_or_equal(st, header) ==
  LET s1 == update_final_head_from_block(st, header)
  IN IF Height(header) >= Height(s1.head)
       THEN OkTip(save_body_head(s1, header), header)
       ELSE OkNone(s1)

\* ChainUpdate::update_head
update_head(st, header) ==
  LET s1 == update_final_head_from_block(st, header)
  IN IF Height(header) > Height(s1.head)
       THEN OkTip(save_body_head(s1, header), header)
       ELSE OkNone(s1)

\* ------------------------------------------------------------------------
\* Chunks and their application
\* ------------------------------------------------------------------------
\* The shards for which a block carries a new chunk
\* (chunk_header.height_included() == block.header().height()).
NewChunkTable == <<{0, 1}, {0, 1}, {1}, {0, 1}, {0, 1}, {0, 1}, {0}, {0, 1}, {0, 1}, {0, 1}>>

is_new_chunk(b, s) == b \in Blocks /\ s \in NewChunkTable[b]

\* RuntimeAdapter::apply_transactions: the root after the chunk of (b, s) is
\* applied to `root`.  The application without a chunk leaves the root
\* alone except in the first block of an epoch, where the runtime updates
\* the validator accounts.
apply_transactions(root, b, s, new_chunk) ==
  IF new_chunk THEN ((root * 3) + b + s) % 17
  ELSE IF is_next_block_epoch_start(Prev(b)) THEN (root + 7) % 17
  ELSE root

\* The state root of shard s after block b on b's own chain.
RECURSIVE StateRootAfter(_, _)
StateRootAfter(b, s) ==
  IF b = Genesis THEN GenesisRoot(s)
  ELSE IF b \notin Blocks THEN 0
  ELSE apply_transactions(StateRootAfter(Prev(b), s), b, s, is_new_chunk(b, s))

\* The block whose chunk for shard 0 declares a prev state root that is not
\* the state root its prev block left.
BadChunkBlock == 9

\* The chunks of a shard the node does not track in the epoch of their
\* block that declare a wrong prev state root as well: nothing checks the
\* root of such a chunk before the shard is caught up.
UntrackedBadChunks == {<<10, 1>>}

\* ShardChunkHeader::prev_state_root of the chunk header a block carries for
\* a shard: a continuation repeats the header of the last new chunk.
RECURSIVE prev_state_root(_, _)
prev_state_root(b, s) ==
  IF b \notin Blocks THEN GenesisRoot(s)
  ELSE IF b = BadChunkBlock /\ s = 0 THEN (StateRootAfter(Prev(b), s) + 1) % 17
  ELSE IF <<b, s>> \in UntrackedBadChunks THEN (StateRootAfter(Prev(b), s) + 1) % 17
  ELSE IF is_new_chunk(b, s) THEN StateRootAfter(Prev(b), s)
  ELSE prev_state_root(Prev(b), s)

\* ChainStoreAccess::get_chunk_extra(block_hash, shard_uid).is_ok()
has_chunk_extra(st, b, s) == <<b, s>> \in DOMAIN st.chunk_extras

\* ChainStoreUpdate::save_chunk_extra
save_chunk_extra(st, b, s, root) ==
  [st EXCEPT !.chunk_extras =
     [k \in (DOMAIN @) \cup {<<b, s>>} |-> IF k = <<b, s>> THEN root ELSE @[k]]]

\* validate_chunk_with_chunk_extra: the declared prev state root of the new
\* chunk is the state root of the previous block's ChunkExtra.
validate_chunk_with_chunk_extra(prev_extra_root, b, s) ==
  prev_extra_root = prev_state_root(b, s)

\* No validation of the state root: what the chunk extra property is tested
\* against.
validate_state_root_skipped(st, b, s) == TRUE

\* "Validate state root" in ChainUpdate::apply_chunks_preprocessing: the new
\* chunk is validated against the ChunkExtra of the prev block.
validate_state_root(st, b, s) ==
  validate_chunk_with_chunk_extra(st.chunk_extras[<<Prev(b), s>>], b, s)

\* The match on the mode with a catch-up that applies every shard of the
\* next epoch: what the apply-once property is tested against.
should_apply_next_epoch_again(mode, cares_this_epoch, cares_next_epoch) ==
  CASE mode = "NotCaughtUp" -> cares_this_epoch
    [] mode = "IsCaughtUp" -> cares_this_epoch \/ cares_next_epoch
    [] OTHER -> cares_next_epoch

\* The match on the mode with an IsCaughtUp that applies the shards of this
\* epoch only: what the assertion of the split states is tested against.
should_apply_this_epoch_only(mode, cares_this_epoch, cares_next_epoch) ==
  CASE mode = "NotCaughtUp" -> cares_this_epoch
    [] mode = "IsCaughtUp" -> cares_this_epoch
    [] OTHER -> ~cares_this_epoch /\ cares_next_epoch

\* The match on the mode in ChainUpdate::apply_chunks_preprocessing
should_apply_transactions(mode, cares_this_epoch, cares_next_epoch) ==
  CASE mode = "NotCaughtUp" -> cares_this_epoch
    [] mode = "IsCaughtUp" -> cares_this_epoch \/ cares_next_epoch
    [] OTHER -> ~cares_this_epoch /\ cares_next_epoch

\* One shard of ChainUpdate::apply_chunks_preprocessing: the job it
\* schedules (a sequence of at most one job), or the error it returns.
preprocess_shard(st, b, s, mode) ==
  LET prev_hash == Prev(b)
      apply == should_apply_transactions(mode, cares_about_shard(prev_hash, s),
                                         will_care_about_shard(prev_hash, s))
  IN IF ~apply THEN [ok |-> TRUE, jobs |-> <<>>, err |-> ""]
     ELSE IF ~has_chunk_extra(st, prev_hash, s)
       THEN [ok |-> FALSE, jobs |-> <<>>, err |-> "DBNotFound"]
     ELSE IF is_new_chunk(b, s)
       THEN IF ~validate_state_root(st, b, s)
              THEN [ok |-> FALSE, jobs |-> <<>>, err |-> "InvalidChunkState"]
              ELSE [ok |-> TRUE, err |-> "",
                    jobs |-> << [shard |-> s, same_height |-> TRUE,
                                 root |-> prev_state_root(b, s)] >>]
     ELSE [ok |-> TRUE, err |-> "",
           jobs |-> << [shard |-> s, same_height |-> FALSE,
                        root |-> st.chunk_extras[<<prev_hash, s>>]] >>]

\* ChainUpdate::apply_chunks_preprocessing: the jobs of shard 0, then shard 1.
apply_chunks_preprocessing(st, b, mode) ==
  LET j0 == preprocess_shard(st, b, 0, mode)
      j1 == preprocess_shard(st, b, 1, mode)
  IN IF ~j0.ok THEN j0
     ELSE IF ~j1.ok THEN j1
     ELSE [ok |-> TRUE, jobs |-> j0.jobs \o j1.jobs, err |-> ""]

\* do_apply_chunks: every job runs; the results come back in job order.
do_apply_chunks(b, jobs) ==
  [i \in DOMAIN jobs |->
     [shard |-> jobs[i].shard, same_height |-> jobs[i].same_height,
      new_root |-> apply_transactions(jobs[i].root, b, jobs[i].shard, jobs[i].same_height)]]

\* ChainUpdate::process_apply_chunk_result
process_apply_chunk_result(st, result, block_hash, prev_block_hash) ==
  IF result.same_height
    THEN OkNone(save_chunk_extra(st, block_hash, result.shard, result.new_root))
    ELSE IF ~has_chunk_extra(st, prev_block_hash, result.shard) THEN Err(st, "DBNotFound")
    ELSE OkNone(save_chunk_extra(st, block_hash, result.shard, result.new_root))

\* ChainUpdate::apply_chunk_postprocessing
RECURSIVE apply_chunk_postprocessing(_, _, _, _)
apply_chunk_postprocessing(st, b, prev_block_hash, results) ==
  IF results = <<>> THEN OkNone(st)
  ELSE LET r == process_apply_chunk_result(st, Head(results), b, prev_block_hash)
       IN IF ~r.ok THEN r
          ELSE apply_chunk_postprocessing(r.st, b, prev_block_hash, Tail(results))

\* ChainUpdate::apply_chunks_and_process_results
apply_chunks_and_process_results(st, b, prev_block_hash, jobs) ==
  apply_chunk_postprocessing(st, b, prev_block_hash, do_apply_chunks(b, jobs))

\* ------------------------------------------------------------------------
\* ChainUpdate::process_block
\* ------------------------------------------------------------------------
\* The checks in memory alone, without the look into the store: what the
\* rejection of a stored block is tested against.
check_known_in_memory(st, block_hash) ==
  IF block_hash = st.head \/ block_hash = Prev(st.head) THEN "KnownInHead"
  ELSE IF contains(st.orphans, block_hash) THEN "KnownInOrphan"
  ELSE IF block_hash \in st.blocks_with_missing_chunks THEN "KnownInMissingChunks"
  ELSE ""

\* check_known: Ok(Ok(())) is "", otherwise the BlockKnownError.
check_known(st, block_hash) ==
  IF block_hash = st.head \/ block_hash = Prev(st.head) THEN "KnownInHead"
  ELSE IF contains(st.orphans, block_hash) THEN "KnownInOrphan"
  ELSE IF block_hash \in st.blocks_with_missing_chunks THEN "KnownInMissingChunks"
  ELSE IF block_exists(st, block_hash) THEN "KnownInStore"
  ELSE ""

\* check_header_known
check_header_known(st, header) ==
  IF header = st.header_head \/ header = Prev(st.header_head) THEN "KnownInHeader"
  ELSE IF block_exists(st, header) THEN "KnownInStore"
  ELSE ""

\* ChainUpdate::care_about_any_shard_or_part (the node owns no part)
care_about_any_shard_or_part(parent_hash) ==
  \E s \in Shards : cares_about_shard(parent_hash, s) \/ will_care_about_shard(parent_hash, s)

\* ChainUpdate::ping_missing_chunks: TRUE when it returns ChunksMissing.
\* The chunks of a block arrive together, and the block has a new chunk.
ping_missing_chunks(st, parent_hash, b) ==
  /\ care_about_any_shard_or_part(parent_hash)
  /\ \E s \in Shards : is_new_chunk(b, s)
  /\ b \notin st.chunks

\* ChainUpdate::prev_block_is_caught_up
prev_block_is_caught_up(st, prev_prev_hash, prev_hash) ==
  prev_hash \notin get_blocks_to_catchup(st, prev_prev_hash)

\* Chain::should_catch_up_shard (the shard layout never changes)
should_catch_up_shard(parent_hash, s) ==
  will_care_about_shard(parent_hash, s) /\ ~cares_about_shard(parent_hash, s)

\* Chain::get_shards_to_dl_state
get_shards_to_dl_state(parent_hash) == {s \in Shards : should_catch_up_shard(parent_hash, s)}

\* ChainUpdate::start_downloading_state: has_state_to_download
start_downloading_state(b) == get_shards_to_dl_state(Prev(b)) # {}

\* ChainUpdate::validate_header, for the headers of the universe: all of
\* them are well formed, so what is left is that the prev header is known.
validate_header(st, header) ==
  IF ~header_exists(st, Prev(header)) THEN "Orphan" ELSE ""

\* ChainUpdate::process_header_for_block
process_header_for_block(st, header) ==
  LET v == validate_header(st, header)
  IN IF v # "" THEN Err(st, v)
     ELSE update_header_head_if_not_challenged(save_block_header(st, header), header)

\* The persist step without the reference for the prev: what the refcount
\* property is tested against.
save_block_without_refcount(st, b) == store_save_block(st, b)

\* The persist step of ChainUpdate::process_block: the block is added to the
\* store, and its prev gains a reference.
save_block_and_refcount(st, b) == inc_block_refcount(store_save_block(st, b), Prev(b))

\* ChainUpdate::process_block from the apply step on: is_caught_up is known
\* and the header is saved.
process_block_apply(st, b, is_caught_up) ==
  LET prev_hash == Prev(b)
      mode == IF is_caught_up THEN "IsCaughtUp" ELSE "NotCaughtUp"
      s1 == IF is_caught_up THEN st ELSE add_block_to_catchup(st, prev_hash, b)
      save(applied) ==
        IF ~applied.ok THEN Err(st, applied.err)
        ELSE IF last_final_block(b) # DefaultHash /\ ~header_exists(applied.st, last_final_block(b))
          THEN Err(st, "DBNotFound")
        ELSE update_head(save_block_and_refcount(applied.st, b), b)
      apply(work) ==
        IF ~work.ok THEN Err(st, work.err)
        ELSE save(apply_chunks_and_process_results(s1, b, prev_hash, work.jobs))
  IN apply(apply_chunks_preprocessing(s1, b, mode))

\* ChainUpdate::process_block.  The result carries the chain store update
\* that Chain::process_block_single_impl commits when the result is Ok.
ChainUpdate_process_block(st, b) ==
  LET known == check_known(st, b)
      head == st.head
      is_next == Prev(b) = head
      prev_hash == Prev(b)
      prev_prev_hash == Prev(Prev(b))
  IN IF known # "" THEN Err(st, "BlockKnown")
     ELSE IF Height(b) > Height(head) + (epoch_length * 20) THEN Err(st, "InvalidBlockHeight")
     ELSE IF ~is_next /\ ~block_exists(st, prev_hash) THEN Err(st, "Orphan")
     ELSE IF ~header_exists(st, prev_hash) THEN Err(st, "Orphan")
     ELSE IF Height(prev_hash) < get_gc_stop_height(head) THEN Err(st, "InvalidBlockHeight")
     ELSE IF is_next_block_epoch_start(prev_hash)
             /\ ~prev_block_is_caught_up(st, prev_prev_hash, prev_hash)
       THEN Err(st, "Orphan")
     ELSE
       LET is_caught_up ==
             IF is_next_block_epoch_start(prev_hash)
               THEN ~start_downloading_state(b)
               ELSE prev_block_is_caught_up(st, prev_prev_hash, prev_hash)
           hdr == process_header_for_block(st, b)
       IN IF ~hdr.ok THEN Err(st, hdr.err)
          ELSE IF ~block_exists(st, prev_hash) THEN Err(st, "DBNotFound")
          ELSE IF ping_missing_chunks(hdr.st, prev_hash, b) THEN Err(st, "ChunksMissing")
          ELSE process_block_apply(hdr.st, b, is_caught_up)

\* ------------------------------------------------------------------------
\* Chain::process_block and the orphans
\* ------------------------------------------------------------------------
\* The loop of Chain::should_request_chunks_for_orphan over the ancestors.
RECURSIVE ancestor_misses_chunks(_, _, _, _)
ancestor_misses_chunks(st, orphan, block_hash, n) ==
  IF n = 0 THEN FALSE
  ELSE IF block_hash \in st.blocks_with_missing_chunks
    THEN ancestor_misses_chunks(st, orphan, Prev(block_hash), n - 1)
  ELSE IF contains(st.orphans, block_hash)
    THEN ancestor_misses_chunks(st, orphan, Prev(block_hash), n - 1)
  ELSE IF block_exists(st, block_hash)
    THEN /\ get_epoch_id_from_prev_block(block_hash) = Epoch(orphan)
         /\ ping_missing_chunks(st, block_hash, orphan)
  ELSE FALSE

\* Chain::should_request_chunks_for_orphan(..).is_some()
should_request_chunks_for_orphan(st, orphan) ==
  /\ can_request_missing_chunks_for_orphan(st.orphans, orphan)
  /\ ancestor_misses_chunks(st, orphan, Prev(orphan), NUM_ORPHAN_ANCESTORS_CHECK)

\* The Orphan arm without the look at the tail: what the heights of the
\* pooled orphans are tested against.
pool_orphan_any_height(st, b) ==
  LET requested_missing_chunks == should_request_chunks_for_orphan(st, b)
  IN [st EXCEPT
        !.events = IF requested_missing_chunks
                     THEN Append(@, OrphanMissingChunks(b)) ELSE @,
        !.orphans = add(@, b, requested_missing_chunks, st.clock)]

\* The ErrorKind::Orphan arm of Chain::process_block_single_impl: only a
\* block that could not have been garbage collected goes to the pool.
pool_orphan(st, b) ==
  IF Height(b) >= st.tail
    THEN LET requested_missing_chunks == should_request_chunks_for_orphan(st, b)
         IN [st EXCEPT
               !.events = IF requested_missing_chunks
                            THEN Append(@, OrphanMissingChunks(b)) ELSE @,
               !.orphans = add(@, b, requested_missing_chunks, st.clock)]
    ELSE st

\* Chain::save_block_height_processed: a store update of its own, which
\* writes nothing when the store fails.
Chain_save_block_height_processed(st, block_height) ==
  IF st.store_fails THEN st ELSE save_block_height_processed(st, block_height)

\* Every new head reported as Next: what the statuses are tested against.
determine_status_next(head, prev_head) ==
  IF head # NoTip
    THEN AcceptedBlock(DefaultHash, "Next", DefaultHash)
    ELSE AcceptedBlock(DefaultHash, "Fork", DefaultHash)

\* Chain::determine_status: a tip is the hash of the block it points at.
determine_status(head, prev_head) ==
  IF head # NoTip
    THEN IF Prev(head) = prev_head
           THEN AcceptedBlock(DefaultHash, "Next", DefaultHash)
           ELSE AcceptedBlock(DefaultHash, "Reorg", prev_head)
    ELSE AcceptedBlock(DefaultHash, "Fork", DefaultHash)

\* The callback ahead of the commit: what the order of the two is tested
\* against.
accept_then_commit(st, upd, b, head, prev_head) ==
  IF st.store_fails
    THEN Err(emit(st, [determine_status(head, prev_head) EXCEPT !.hash = b]), "IOErr")
    ELSE OkTip(emit(upd, [determine_status(head, prev_head) EXCEPT !.hash = b]), head)

\* The Ok arm of Chain::process_block_single_impl: the store update `upd`
\* is committed, which fails when the store does and then leaves `st` as
\* it was, and after that block_accepted is called with the status.
commit_then_accept(st, upd, b, head, prev_head) ==
  IF st.store_fails THEN Err(st, "IOErr")
  ELSE OkTip(emit(upd, [determine_status(head, prev_head) EXCEPT !.hash = b]), head)

\* The ChainUpdate writing through to the store: on an error the chain is
\* left with what was buffered up to the failure.  What the isolation of a
\* failed block is tested against.
process_block_single_impl_unbuffered(st, b) ==
  LET prev_head == st.head
      handled(r) ==
        IF r.err = "Orphan" THEN pool_orphan(r.st, b)
        ELSE IF r.err = "ChunksMissing"
          THEN [emit(r.st, BlockMissingChunks(b)) EXCEPT
                  !.blocks_with_missing_chunks = @ \cup {b}]
        ELSE r.st
      match_result(r) ==
        IF r.ok
          THEN commit_then_accept(st, save_block_height_processed(r.st, Height(b)),
                                  b, r.tip, prev_head)
          ELSE Err(Chain_save_block_height_processed(handled(r), Height(b)), r.err)
  IN match_result(ChainUpdate_process_block(st, b))

\* Chain::process_block_single_impl
process_block_single_impl(st, b) ==
  LET prev_head == st.head
      handled(err) ==
        IF err = "Orphan" THEN pool_orphan(st, b)
        ELSE IF err = "ChunksMissing"
          THEN [emit(st, BlockMissingChunks(b)) EXCEPT
                  !.blocks_with_missing_chunks = @ \cup {b}]
        ELSE st
      match_result(r) ==
        IF r.ok
          THEN commit_then_accept(st, save_block_height_processed(r.st, Height(b)),
                                  b, r.tip, prev_head)
          ELSE Err(Chain_save_block_height_processed(handled(r.err), Height(b)), r.err)
  IN match_result(ChainUpdate_process_block(st, b))

\* Every rejected block kept as an orphan: what the reasons for pooling are
\* tested against.
process_block_single_pooling(st, b) ==
  LET pooling(r) ==
        IF r.ok \/ r.err \in {"Orphan", "BlockKnown"} THEN r
        ELSE [r EXCEPT !.st.orphans = add(@, b, FALSE, st.clock)]
  IN pooling(process_block_single_impl(st, b))

\* Chain::process_block_single
process_block_single(st, b) == process_block_single_impl(st, b)

\* OrphanBlockPool::get_orphans_within_depth: the stack `queue` holds
\* <<hash, depth>> pairs; the result is the list found, and whether the
\* assertion on its length failed.
RECURSIVE within_depth_loop(_, _, _, _)
within_depth_loop(pool, queue, res, target_depth) ==
  IF queue = <<>> THEN [res |-> res, failed |-> FALSE]
  ELSE
    LET top == queue[Len(queue)]
        rest == SubSeq(queue, 1, Len(queue) - 1)
    IN IF top[2] = target_depth THEN [res |-> res, failed |-> FALSE]
       ELSE
         LET kids == IF top[1] \in DOMAIN pool.prev_hash_idx
                       THEN pool.prev_hash_idx[top[1]] ELSE <<>>
             q2 == rest \o [i \in DOMAIN kids |-> <<kids[i], top[2] + 1>>]
             r2 == res \o kids
         IN IF Len(r2) > 100 * target_depth THEN [res |-> r2, failed |-> TRUE]
            ELSE within_depth_loop(pool, q2, r2, target_depth)

get_orphans_within_depth(pool, parent_hash, target_depth) ==
  within_depth_loop(pool, << <<parent_hash, 0>> >>, <<>>, target_depth)

\* The first loop of Chain::check_orphans for one prev_hash: every orphan
\* found within the depth is looked up (the unwrap panics when the pool no
\* longer holds it) and marked when its chunks should be requested.
RECURSIVE request_loop(_, _)
request_loop(st, hashes) ==
  IF hashes = <<>> THEN st
  ELSE IF ~contains(st.orphans, Head(hashes)) THEN [st EXCEPT !.panicked = TRUE]
  ELSE IF should_request_chunks_for_orphan(st, Head(hashes))
    THEN request_loop(
           [emit(st, OrphanMissingChunks(Head(hashes))) EXCEPT
              !.orphans = mark_missing_chunks_requested_for_orphan(@, Head(hashes))],
           Tail(hashes))
  ELSE request_loop(st, Tail(hashes))

\* The second loop of Chain::check_orphans for one prev_hash: the orphans
\* taken out of the pool are processed in order.
RECURSIVE adopt_loop(_, _, _, _)
adopt_loop(st, orphans, queue, maybe_new_head) ==
  IF orphans = <<>> \/ st.panicked
    THEN [st |-> st, queue |-> queue, tip |-> maybe_new_head]
  ELSE
    LET next_orphan(r) ==
          adopt_loop(r.st, Tail(orphans),
                     IF r.ok THEN Append(queue, Head(orphans)) ELSE queue,
                     IF r.ok THEN r.tip ELSE maybe_new_head)
    IN next_orphan(process_block_single(st, Head(orphans)))

\* Chain::check_orphans: the while loop over the queue.
RECURSIVE check_orphans_loop(_, _, _, _)
check_orphans_loop(st, queue, queue_idx, maybe_new_head) ==
  IF queue_idx > Len(queue) \/ st.panicked THEN [st |-> st, tip |-> maybe_new_head]
  ELSE
    LET prev_hash == queue[queue_idx]
        found == get_orphans_within_depth(st.orphans, prev_hash, NUM_ORPHAN_ANCESTORS_CHECK)
        s1 == IF found.failed THEN [st EXCEPT !.panicked = TRUE]
              ELSE request_loop(st, found.res)
    IN IF s1.panicked THEN [st |-> s1, tip |-> maybe_new_head]
       ELSE
         LET taken == removed_by_prev_hash(s1.orphans, prev_hash)
             s2 == [s1 EXCEPT !.orphans = remove_by_prev_hash(@, prev_hash)]
             next_in_queue(done) ==
               check_orphans_loop(done.st, done.queue, queue_idx + 1, done.tip)
         IN next_in_queue(adopt_loop(s2, taken, queue, maybe_new_head))

check_orphans(st, prev_hash) == check_orphans_loop(st, <<prev_hash>>, 1, NoTip)

\* The submitted block alone, its orphans left in the pool: what the
\* adoption of the orphans is tested against.
Chain_process_block_alone(st, b) == process_block_single(st, b)

\* Chain::process_block
Chain_process_block(st, b) ==
  LET new_head(res, co) ==
        IF co.tip # NoTip THEN OkTip(co.st, co.tip)
        ELSE [res EXCEPT !.st = co.st]
      with_orphans(res) ==
        IF res.ok THEN new_head(res, check_orphans(res.st, b)) ELSE res
  IN with_orphans(process_block_single(st, b))

\* ------------------------------------------------------------------------
\* Garbage collection
\* ------------------------------------------------------------------------
\* What ChainStoreUpdate::clear_block_data removes for one block: the body,
\* its ChunkExtras, its refcount entry and its blocks-to-catch-up entry.
delete_block(st, b) ==
  [st EXCEPT
     !.blocks = @ \ {b},
     !.chunk_extras = Restrict(@, {k \in DOMAIN @ : k[1] # b}),
     !.refcount = [@ EXCEPT ![b] = 0],
     !.blocks_to_catchup = {q \in @ : q[1] # b}]

\* ChainStoreUpdate::clear_block_data in GCMode::Fork: the block goes and
\* its prev loses a reference.
clear_block_data_fork(st, b) ==
  IF ~block_exists(st, b) THEN Err(st, "DBNotFound")
  ELSE OkNone(dec_block_refcount(delete_block(st, b), Prev(b)))

\* The block data left in place: what the canonical chain clearing is
\* tested against.
clear_block_data_canonical_kept(st, b) == OkNone(st)

\* ChainStoreUpdate::clear_block_data in GCMode::Canonical: the data of the
\* block before the given one goes.
clear_block_data_canonical(st, b) ==
  IF ~block_exists(st, Prev(b)) THEN Err(st, "DBNotFound")
  ELSE OkNone(delete_block(st, Prev(b)))

\* A set of hashes as the list the store hands out.
RECURSIVE SetToSeq(_)
SetToSeq(S) == IF S = {} THEN <<>> ELSE <<MinOf(S)>> \o SetToSeq(S \ {MinOf(S)})

\* The inner loop of Chain::clear_forks_data: from current_hash back through
\* the prevs while the refcount is zero.  `left` is gc_blocks_remaining.
RECURSIVE clear_fork_chain(_, _, _)
clear_fork_chain(st, current_hash, left) ==
  IF left = 0 THEN [ok |-> TRUE, st |-> st, left |-> 0, returned |-> TRUE]
  ELSE IF get_block_refcount(st, current_hash) = 0
    THEN IF ~header_exists(st, current_hash)
           THEN [ok |-> FALSE, st |-> st, left |-> left, returned |-> TRUE]
           ELSE LET r == clear_block_data_fork(st, current_hash)
                IN IF ~r.ok THEN [ok |-> FALSE, st |-> st, left |-> left, returned |-> TRUE]
                   ELSE clear_fork_chain(r.st, Prev(current_hash), left - 1)
  ELSE [ok |-> TRUE, st |-> st, left |-> left, returned |-> FALSE]

\* Chain::clear_forks_data: the loop over the blocks of one height.
RECURSIVE clear_forks_blocks(_, _, _)
clear_forks_blocks(st, hashes, left) ==
  IF hashes = <<>> THEN [ok |-> TRUE, st |-> st, left |-> left]
  ELSE LET r == clear_fork_chain(st, Head(hashes), left)
       IN IF r.returned THEN [ok |-> r.ok, st |-> r.st, left |-> r.left]
          ELSE clear_forks_blocks(r.st, Tail(hashes), r.left)

\* The blocks cleared at one height are not taken off gc_blocks_remaining:
\* what the limit of a call is tested against.
clear_forks_data_uncounted(st, height, left) ==
  LET uncounted(r) == [r EXCEPT !.left = left]
  IN uncounted(clear_forks_blocks(st, SetToSeq(get_all_block_hashes_by_height(st, height)), left))

\* Chain::clear_forks_data
clear_forks_data(st, height, left) ==
  clear_forks_blocks(st, SetToSeq(get_all_block_hashes_by_height(st, height)), left)

\* The forks cleaning loop of Chain::clear_data: heights fork_tail - 1 down
\* to stop_height.  `done` tells that clear_data returned inside the loop.
RECURSIVE forks_cleaning(_, _, _, _)
forks_cleaning(st, height, stop_height, left) ==
  IF height < stop_height THEN [ok |-> TRUE, st |-> st, left |-> left, done |-> FALSE]
  ELSE LET next_height(r) ==
             IF ~r.ok THEN [ok |-> FALSE, st |-> r.st, left |-> r.left, done |-> TRUE]
             ELSE IF r.left = 0 THEN [ok |-> TRUE, st |-> r.st, left |-> 0, done |-> TRUE]
             ELSE forks_cleaning(update_fork_tail(r.st, height), height - 1, stop_height, r.left)
       IN next_height(clear_forks_data(st, height, left))

\* The tail left one height short, on the block that was just cleared:
\* what the canonical chain properties are tested against.
advance_tail_short(st, height) == update_tail(st, height - 1)

\* The end of one round of the canonical chain clearing loop: the tail moves
\* to the height just handled.
advance_tail(st, height) == update_tail(st, height)

\* The canonical chain clearing loop of Chain::clear_data: heights tail + 1
\* up to gc_stop_height - 1.
RECURSIVE canonical_clearing(_, _, _, _)
canonical_clearing(st, height, gc_stop_height, left) ==
  IF height >= gc_stop_height \/ left = 0 THEN OkNone(st)
  ELSE
    LET at_height == SetToSeq(get_all_block_hashes_by_height(st, height))
    IN IF at_height = <<>>
         THEN canonical_clearing(advance_tail(st, height), height + 1, gc_stop_height, left)
       ELSE
         LET block_hash == Head(at_height)
             prev_block_refcount == get_block_refcount(st, Prev(block_hash))
         IN IF ~header_exists(st, block_hash) THEN Err(st, "DBNotFound")
            ELSE IF prev_block_refcount > 1 THEN OkNone(st)
            ELSE IF prev_block_refcount = 1
              THEN LET r == clear_block_data_canonical(st, block_hash)
                   IN IF ~r.ok THEN Err(st, r.err)
                      ELSE canonical_clearing(advance_tail(r.st, height), height + 1,
                                              gc_stop_height, left - 1)
            ELSE Err(st, "GCError")

\* Chain::clear_data
clear_data(st, gc_blocks_limit) ==
  LET head == st.head
      tail == st.tail
      gc_stop_height == get_gc_stop_height(head)
  IN IF gc_stop_height > Height(head) THEN Err(st, "GCError")
     ELSE IF ~header_exists(st, Prev(head)) THEN Err(st, "DBNotFound")
     ELSE
       LET epoch_change == Epoch(Prev(head)) # Epoch(head)
           s1 == IF epoch_change /\ st.fork_tail < gc_stop_height
                   THEN update_fork_tail(st, gc_stop_height) ELSE st
           fork_tail == s1.fork_tail
           lowered == IF fork_tail > GC_FORK_CLEAN_STEP
                        THEN fork_tail - GC_FORK_CLEAN_STEP ELSE 0
           stop_height == IF tail > lowered THEN tail ELSE lowered
           after_forks(forks) ==
             IF ~forks.ok THEN Err(forks.st, "DBNotFound")
             ELSE IF forks.done THEN OkNone(forks.st)
             ELSE canonical_clearing(forks.st, tail + 1, gc_stop_height, forks.left)
       IN after_forks(forks_cleaning(s1, fork_tail - 1, stop_height, gc_blocks_limit))

\* ------------------------------------------------------------------------
\* The other entry points of Chain
\* ------------------------------------------------------------------------
\* Chain::save_block: the body is stored; the header, the refcount of the
\* prev and the heads are left alone.
Chain_save_block(st, b) ==
  IF block_exists(st, b) THEN OkNone(st)
  ELSE OkNone(store_save_block(st, b))

\* Chain::save_orphan.  Every block of the universe passes validate_block.
Chain_save_orphan(st, b, requested_missing_chunks) ==
  IF contains(st.orphans, b) THEN OkNone(st)
  ELSE OkNone([st EXCEPT !.orphans = add(@, b, requested_missing_chunks, st.clock)])

\* The loop of Chain::sync_block_headers over the headers, each one in a
\* chain update of its own.
RECURSIVE sync_headers_loop(_, _)
sync_headers_loop(st, headers) ==
  IF headers = <<>> THEN OkNone(st)
  ELSE
    LET header == Head(headers)
    IN IF check_header_known(st, header) # "" THEN sync_headers_loop(st, Tail(headers))
       ELSE IF validate_header(st, header) # "" THEN Err(st, validate_header(st, header))
       ELSE IF last_final_block(header) # DefaultHash
               /\ ~header_exists(st, last_final_block(header))
         THEN Err(st, "DBNotFound")
       ELSE sync_headers_loop(save_block_header(st, header), Tail(headers))

\* Chain::sync_block_headers; `headers` is sorted by height.
sync_block_headers(st, headers) ==
  LET last_header == headers[Len(headers)]
      all_known == header_exists(st, last_header)
      saved == IF all_known THEN OkNone(st) ELSE sync_headers_loop(st, headers)
  IN IF ~saved.ok THEN saved
     ELSE LET r == update_header_head_if_not_challenged(saved.st, last_header)
          IN IF r.ok THEN r ELSE Err(saved.st, r.err)

\* ChainUpdate::mark_block_as_challenged
ChainUpdate_mark_block_as_challenged(st, block_hash, challenger_hash) ==
  IF ~header_exists(st, block_hash) THEN OkNone(save_challenged_block(st, block_hash))
  ELSE
    LET cur_block_at_same_height == get_block_hash_by_height(st, Height(block_hash))
        s1 == save_challenged_block(st, block_hash)
    IN IF cur_block_at_same_height # block_hash THEN OkNone(s1)
       ELSE IF ~header_exists(s1, Prev(block_hash)) THEN Err(st, "DBNotFound")
       ELSE IF ~header_exists(s1, challenger_hash) THEN Err(st, "DBNotFound")
       ELSE
         LET prev_height == Height(Prev(block_hash))
             new_head_header == IF Height(challenger_hash) > prev_height
                                  THEN challenger_hash ELSE Prev(block_hash)
             final == last_final_block(new_head_header)
             saved == save_head(s1, new_head_header)
         IN IF ~saved.ok THEN Err(st, saved.err)
            ELSE IF ~header_exists(saved.st, final) THEN Err(st, "DBNotFound")
            ELSE OkNone(save_final_head(saved.st, final))

\* Chain::mark_block_as_challenged: the update is committed when it is Ok.
Chain_mark_block_as_challenged(st, block_hash, challenger_hash) ==
  ChainUpdate_mark_block_as_challenged(st, block_hash, challenger_hash)

\* Chain::reset_heads_post_state_sync
reset_heads_post_state_sync(st, sync_hash) ==
  IF ~header_exists(st, sync_hash) THEN Err(st, "DBNotFound")
  ELSE IF ~block_exists(st, Prev(sync_hash)) THEN Err(st, "DBNotFound")
  ELSE
    LET hash == Prev(sync_hash)
        new_tail == Height(hash)
        s1 == update_tail(save_final_head(save_body_head(st, hash), Genesis), new_tail)
    IN OkNone(check_orphans(s1, hash).st)

\* Hashes in the order of their heights.
RECURSIVE ByHeight(_)
ByHeight(S) ==
  IF S = {} THEN <<>>
  ELSE LET m == CHOOSE x \in S : \A y \in S :
                  Height(x) < Height(y) \/ (Height(x) = Height(y) /\ x <= y)
       IN <<m>> \o ByHeight(S \ {m})

\* MissingChunksPool::ready_blocks: the parked blocks whose chunks are all
\* there leave the pool, lowest height first.
ready_blocks(st) ==
  LET ready == {x \in st.blocks_with_missing_chunks : x \in st.chunks}
  IN [st |-> [st EXCEPT !.blocks_with_missing_chunks = @ \ ready],
      blocks |-> ByHeight(ready)]

\* The two loops of Chain::check_blocks_with_missing_chunks.
RECURSIVE process_ready(_, _, _)
process_ready(st, blocks, accepted) ==
  IF blocks = <<>> THEN [st |-> st, accepted |-> accepted]
  ELSE LET next_block(r) ==
             process_ready(r.st, Tail(blocks),
                           IF r.ok THEN Append(accepted, Head(blocks)) ELSE accepted)
       IN next_block(process_block_single(st, Head(blocks)))

RECURSIVE check_orphans_each(_, _)
check_orphans_each(st, hashes) ==
  IF hashes = <<>> \/ st.panicked THEN st
  ELSE check_orphans_each(check_orphans(st, Head(hashes)).st, Tail(hashes))

\* The ready blocks processed and the orphans that wait for them left
\* alone: what the check of the orphans is tested against.
check_blocks_with_missing_chunks_only(st) ==
  LET ready == ready_blocks(st)
      orphans_of(done) == done.st
  IN orphans_of(process_ready(ready.st, ready.blocks, <<>>))

check_blocks_with_missing_chunks(st) ==
  LET ready == ready_blocks(st)
      orphans_of(done) == check_orphans_each(done.st, done.accepted)
  IN orphans_of(process_ready(ready.st, ready.blocks, <<>>))

\* ------------------------------------------------------------------------
\* Catching up the shards of the next epoch
\* ------------------------------------------------------------------------
\* Chain::block_catch_up_postprocess
block_catch_up_postprocess(st, block_hash, results) ==
  IF ~block_exists(st, block_hash) \/ ~block_exists(st, Prev(block_hash))
    THEN Err(st, "DBNotFound")
    ELSE
      LET commit(post) ==
            IF ~post.ok THEN post
            ELSE IF st.store_fails THEN Err(st, "IOErr")
            ELSE post
      IN commit(apply_chunk_postprocessing(st, block_hash, Prev(block_hash), results))

\* Chain::catchup_blocks_step, repeated until no block is pending: every
\* pending block is preprocessed in mode CatchingUp, its jobs run, the
\* results are postprocessed, and the blocks queued behind it get pending.
RECURSIVE catchup_blocks(_, _, _)
catchup_blocks(st, pending_blocks, done_blocks) ==
  IF pending_blocks = <<>> THEN [ok |-> TRUE, st |-> st, done_blocks |-> done_blocks]
  ELSE
    LET b == Head(pending_blocks)
    IN IF ~block_exists(st, b) \/ ~block_exists(st, Prev(b))
         THEN [ok |-> FALSE, st |-> st, done_blocks |-> done_blocks]
       ELSE
         LET work == apply_chunks_preprocessing(st, b, "CatchingUp")
         IN IF ~work.ok THEN [ok |-> FALSE, st |-> st, done_blocks |-> done_blocks]
            ELSE
              LET post == block_catch_up_postprocess(st, b, do_apply_chunks(b, work.jobs))
              IN IF ~post.ok THEN [ok |-> FALSE, st |-> st, done_blocks |-> done_blocks]
                 ELSE catchup_blocks(post.st,
                        Tail(pending_blocks) \o SetToSeq(get_blocks_to_catchup(post.st, b)),
                        Append(done_blocks, b))

\* Chain::finish_catchup_blocks
finish_catchup_blocks(st, first_block, affected_blocks) ==
  IF ~block_exists(st, first_block) THEN Err(st, "DBNotFound")
  ELSE
    LET s1 == [st EXCEPT !.blocks_to_catchup =
                 {q \in @ : /\ q # <<Prev(first_block), first_block>>
                            /\ q[1] \notin Range(affected_blocks)}]
    IN OkNone(check_orphans_each(s1, affected_blocks))

\* The catch-up of one epoch: BlocksCatchUpState::new(sync_hash), the steps
\* until it is finished, then finish_catchup_blocks with the done blocks.
catchup(st, sync_hash) ==
  LET finish(steps) ==
        IF ~steps.ok THEN Err(steps.st, "Other")
        ELSE finish_catchup_blocks(steps.st, sync_hash, steps.done_blocks)
  IN finish(catchup_blocks(st, <<sync_hash>>, <<>>))

\* ------------------------------------------------------------------------
\* The state machine
\* ------------------------------------------------------------------------
\* chain:  the Chain object (store, pools, clock).
\* called: which of the calls outside normal operation (state sync and
\*         challenges) were made on it so far.
\* call:   the call in progress in the specifications that follow one
\*         call of a function on its own: its name, arguments, progress
\*         and result; NoCall in the specifications of the chain.
VARIABLES chain, called, call

vars == <<chain, called, call>>

NoCall == [fn |-> "none"]

Init ==
  /\ chain = Chain_new
  /\ called = {}
  /\ call = NoCall

\* Chain::process_block(block)
ProcessBlock(b) ==
  /\ ~chain.panicked
  /\ chain' = returned((Chain_process_block(chain, b)).st)
  /\ UNCHANGED <<called, call>>

\* Chain::clear_data(tries, gc_blocks_limit)
ClearData(gc_blocks_limit) ==
  /\ ~chain.panicked
  /\ chain' = (clear_data(chain, gc_blocks_limit)).st
  /\ UNCHANGED <<called, call>>

\* Chain::save_block(block)
SaveBlock(b) ==
  /\ ~chain.panicked
  /\ chain' = (Chain_save_block(chain, b)).st
  /\ called' = called \cup {"save_block"}
  /\ UNCHANGED call

\* Chain::save_orphan(block, requested_missing_chunks)
SaveOrphan(b, requested_missing_chunks) ==
  /\ ~chain.panicked
  /\ chain' = (Chain_save_orphan(chain, b, requested_missing_chunks)).st
  /\ UNCHANGED <<called, call>>

\* Chain::sync_block_headers(headers)
SyncBlockHeaders(headers) ==
  /\ ~chain.panicked
  /\ chain' = (sync_block_headers(chain, headers)).st
  /\ UNCHANGED <<called, call>>

\* Chain::mark_block_as_challenged(block_hash, challenger_hash)
MarkBlockAsChallenged(block_hash, challenger_hash) ==
  /\ ~chain.panicked
  /\ chain' = (Chain_mark_block_as_challenged(chain, block_hash, challenger_hash)).st
  /\ called' = called \cup {"mark_block_as_challenged"}
  /\ UNCHANGED call

\* Chain::reset_heads_post_state_sync(sync_hash)
ResetHeadsPostStateSync(sync_hash) ==
  /\ ~chain.panicked
  /\ chain' = returned((reset_heads_post_state_sync(chain, sync_hash)).st)
  /\ called' = called \cup {"reset_heads_post_state_sync"}
  /\ UNCHANGED call

\* The chunks of a block arrive, and the client calls
\* Chain::check_blocks_with_missing_chunks.
ChunksArrive(b) ==
  /\ ~chain.panicked
  /\ b \notin chain.chunks
  /\ chain' = returned(check_blocks_with_missing_chunks([chain EXCEPT !.chunks = @ \cup {b}]))
  /\ UNCHANGED <<called, call>>

\* The state of the next epoch's shards is there for the epoch that starts
\* with sync_hash: the client runs the catch-up to its end.
CatchupBlocks(sync_hash) ==
  /\ ~chain.panicked
  /\ is_next_block_epoch_start(Prev(sync_hash))
  /\ <<Prev(sync_hash), sync_hash>> \in chain.blocks_to_catchup
  /\ chain' = returned((catchup(chain, sync_hash)).st)
  /\ UNCHANGED <<called, call>>

\* The clock advances.
Tick ==
  /\ ~chain.panicked
  /\ chain.clock < MaxClock
  /\ chain' = [chain EXCEPT !.clock = @ + ClockStep]
  /\ UNCHANGED <<called, call>>

\* The inputs of the calls.  The blocks 1..9 are delivered to process_block
\* in any order; the other calls come from a node that syncs:
\* the headers of the first blocks in one batch, the body of block 5 saved
\* as the block before a state sync to block 6, the first block of an epoch,
\* and block 3 challenged in block 7.
Delivered == 1..9

HeaderBatches == {<<1, 2, 3>>}

SavedBlocks == {5}

SyncHashes == {6}

Challenges == {<<3, 7>>}

Next ==
  \/ \E b \in Delivered : ProcessBlock(b)
  \/ \E n \in 1..GcBlocksLimit : ClearData(n)
  \/ \E hs \in HeaderBatches : SyncBlockHeaders(hs)
  \/ \E b \in Delivered : ChunksArrive(b)
  \/ \E b \in Delivered : CatchupBlocks(b)
  \/ \E b \in SavedBlocks : SaveBlock(b)
  \/ \E b \in SyncHashes : ResetHeadsPostStateSync(b)
  \/ \E c \in Challenges : MarkBlockAsChallenged(c[1], c[2])

Spec == Init /\ [][Next]_vars

\* ------------------------------------------------------------------------
\* The state machine of a node that holds a nearly full orphan pool
\* ------------------------------------------------------------------------
\* The pool after save_orphan(f, false) for the filler orphans lo..hi in
\* ascending order, at instant 0.  The range is split in two so that the
\* evaluation stays shallow; the test on the first half always holds and
\* makes TLC compute it before the second half.
RECURSIVE filled_pool(_, _, _)
filled_pool(pool, lo, hi) ==
  IF lo > hi THEN pool
  ELSE IF lo = hi THEN add(pool, lo, FALSE, 0)
  ELSE LET first_half == filled_pool(pool, lo, (lo + hi) \div 2)
       IN IF first_half.evicted >= 0
            THEN filled_pool(first_half, (lo + hi) \div 2 + 1, hi)
            ELSE first_half

\* The node has just started and was sent every filler orphan.
InitPool ==
  /\ chain = [Chain_new EXCEPT
                !.orphans = filled_pool(@, FillBase, FillBase + NumFillers - 1)]
  /\ called = {}
  /\ call = NoCall

\* The blocks a peer hands over with save_orphan, and the blocks that
\* arrive at process_block, while the pool is that full.
PoolOrphans == {3, 4, 6, 7, 8, LateOrphan}

PoolBlocks == {1, 8}

NextPool ==
  \/ \E b \in PoolOrphans : SaveOrphan(b, TRUE)
  \/ \E b \in PoolBlocks : ProcessBlock(b)
  \/ Tick

SpecPool == InitPool /\ [][NextPool]_vars

\* The node has just started and process_block was handed NumCrowd of the
\* crowd orphans, which it put in the pool as block 1 is not known yet.
InitCrowd ==
  /\ chain = [Chain_new EXCEPT
                !.orphans = filled_pool(@, CrowdBase, CrowdBase + NumCrowd - 1)]
  /\ called = {}
  /\ call = NoCall

\* Three more of the crowd arrive, and the blocks 1, 2 and 7.
CrowdBlocks ==
  {1, 2, 7} \cup ((CrowdBase + NumCrowd)..(CrowdBase + NumCrowd + 2))

NextCrowd ==
  \/ \E b \in CrowdBlocks : ProcessBlock(b)
  \/ Tick

SpecCrowd == InitCrowd /\ [][NextCrowd]_vars

\* The chain of a node that only receives blocks, all ten of them in any
\* order, the two valid siblings at height 3 among them.
NextForks ==
  \/ \E b \in Blocks : ProcessBlock(b)
  \/ \E b \in Blocks : ChunksArrive(b)

SpecForks == Init /\ [][NextForks]_vars

\* The chain on a store whose writes can fail: the blocks of the main chain
\* and the lying sibling are processed, their chunks arrive, and the store
\* breaks and recovers at any moment.
FaultyBlocks == {1, 2, 3, 4, 5, 9}

StoreBreaks ==
  /\ ~chain.panicked
  /\ ~chain.store_fails
  /\ chain' = [chain EXCEPT !.store_fails = TRUE]
  /\ UNCHANGED <<called, call>>

StoreRecovers ==
  /\ ~chain.panicked
  /\ chain.store_fails
  /\ chain' = [chain EXCEPT !.store_fails = FALSE]
  /\ UNCHANGED <<called, call>>

NextFaulty ==
  \/ \E b \in FaultyBlocks : ProcessBlock(b)
  \/ \E b \in FaultyBlocks : ChunksArrive(b)
  \/ StoreBreaks
  \/ StoreRecovers

SpecFaulty == Init /\ [][NextFaulty]_vars

\* ------------------------------------------------------------------------
\* Refcounts
\* ------------------------------------------------------------------------
\* The blocks in the store whose prev hash is B.
StoredChildren(B) == {c \in chain.blocks : c # Genesis /\ Prev(c) = B}

RefcountsMatch ==
  \A B \in chain.blocks : get_block_refcount(chain, B) = Cardinality(StoredChildren(B))

\* C1 as stated: in every reachable state the refcount of every stored block
\* is the number of stored blocks whose prev hash is that block.
C1_RefcountIsChildren == RefcountsMatch

\* C1, amended: the refcount of every stored block is the number of stored
\* blocks whose prev hash is that block in every state reached without the
\* state sync calls: Chain::save_block stores a block and leaves the refcount
\* of its prev alone, and Chain::reset_heads_post_state_sync moves the tail
\* over blocks that clear_data then never visits.
C1_RefcountIsChildrenOperate ==
  called \cap {"save_block", "reset_heads_post_state_sync"} = {} => RefcountsMatch

\* clear_forks_data has removed the fork block 7, whose header stays, and
\* block 1 is left with the one reference of block 2.
C1_Witness ==
  /\ called = {}
  /\ header_exists(chain, 7) /\ ~block_exists(chain, 7)
  /\ block_exists(chain, 1) /\ block_exists(chain, 2)
  /\ get_block_refcount(chain, 1) = 1

\* ------------------------------------------------------------------------
\* The canonical chain
\* ------------------------------------------------------------------------
\* The blocks met walking back from b via prev_hash, b included.
RECURSIVE WalkBack(_)
WalkBack(b) == IF b \notin Blocks THEN {b} \cap {Genesis} ELSE {b} \cup WalkBack(Prev(b))

\* The stored blocks of the canonical chain at height h.
CanonicalAt(h) == {b \in WalkBack(chain.head) : Height(b) = h /\ block_exists(chain, b)}

\* C2 as stated: at every height from tail to the height of head there is
\* exactly one block of the canonical chain walked back from head.
C2_OneCanonicalPerHeight ==
  \A h \in chain.tail..Height(chain.head) : Cardinality(CanonicalAt(h)) = 1

\* C2, amended: as long as no block was marked as challenged, at every
\* height from tail to the height of head there is at most one block of the
\* canonical chain, exactly one at the height of head, and every block met
\* walking back from head down to tail is in the store.
CanonicalChainStored ==
  /\ \A h \in chain.tail..Height(chain.head) : Cardinality(CanonicalAt(h)) <= 1
  /\ CanonicalAt(Height(chain.head)) = {chain.head}
  /\ \A b \in WalkBack(chain.head) : Height(b) >= chain.tail => block_exists(chain, b)

C2_CanonicalChainStored ==
  "mark_block_as_challenged" \notin called => CanonicalChainStored

\* clear_data has moved the tail, and the canonical chain skips a height
\* between tail and head.
C2_Witness ==
  /\ called = {}
  /\ chain.tail > 0
  /\ \E h \in chain.tail..Height(chain.head) : CanonicalAt(h) = {}
  /\ \E h \in chain.tail..(Height(chain.head) - 1) : CanonicalAt(h) # {}

\* ------------------------------------------------------------------------
\* The order of the heads
\* ------------------------------------------------------------------------
HeadsOrdered ==
  /\ chain.tail <= Height(chain.final_head)
  /\ Height(chain.final_head) <= Height(chain.head)
  /\ Height(chain.head) <= Height(chain.header_head)

\* C3 as stated: tail <= final_head.height <= head.height <=
\* header_head.height in every reachable state.
C3_HeadsOrdered == HeadsOrdered

\* C3, amended: the heads are in that order in every state reached without
\* reset_heads_post_state_sync and mark_block_as_challenged; after them
\* final_head.height <= head.height still holds.
C3_HeadsOrderedOperate ==
  /\ called \cap {"reset_heads_post_state_sync", "mark_block_as_challenged"} = {}
       => HeadsOrdered
  /\ Height(chain.final_head) <= Height(chain.head)

\* Headers were synced ahead of the blocks, blocks were processed up to a
\* final block, and clear_data has moved the tail.
C3_Witness ==
  /\ called \cap {"reset_heads_post_state_sync", "mark_block_as_challenged"} = {}
  /\ 0 < chain.tail
  /\ chain.tail < Height(chain.final_head)
  /\ Height(chain.final_head) < Height(chain.head)

\* ------------------------------------------------------------------------
\* Chunk extras and state roots
\* ------------------------------------------------------------------------
\* The canonical chain from the block after B up to head, as the blocks
\* whose walk back passes B.
After(B) == {c \in WalkBack(chain.head) : c # B /\ B \in WalkBack(c)}

\* The next canonical block after B that includes a new chunk for s.
NextNewChunk(B, s) ==
  {c \in After(B) : /\ is_new_chunk(c, s)
                     /\ \A d \in After(B) : is_new_chunk(d, s) => Height(c) <= Height(d)}

AwaitsCatchup(b) == \E q \in chain.blocks_to_catchup : q[2] = b

\* C5: for every combination of cares-this-epoch and cares-next-epoch the
\* shards applied by NotCaughtUp and by CatchingUp are disjoint and together
\* are the shards applied by IsCaughtUp; and every block that process_block
\* stored has a ChunkExtra for exactly the shards of NotCaughtUp while it
\* waits for the catch-up, and of IsCaughtUp afterwards.
C5_ApplyOnce ==
  /\ \A ct \in BOOLEAN, cn \in BOOLEAN :
       /\ ~(should_apply_transactions("NotCaughtUp", ct, cn)
              /\ should_apply_transactions("CatchingUp", ct, cn))
       /\ should_apply_transactions("IsCaughtUp", ct, cn)
            <=> (should_apply_transactions("NotCaughtUp", ct, cn)
                   \/ should_apply_transactions("CatchingUp", ct, cn))
  /\ "save_block" \notin called =>
       \A b \in chain.blocks \ {Genesis} : \A s \in Shards :
         has_chunk_extra(chain, b, s) <=>
           should_apply_transactions(
             IF AwaitsCatchup(b) THEN "NotCaughtUp" ELSE "IsCaughtUp",
             cares_about_shard(Prev(b), s), will_care_about_shard(Prev(b), s))

\* Block 3 went through NotCaughtUp for shard 0 and through CatchingUp for
\* shard 1, which the node tracks from the next epoch on.
C5_Witness ==
  /\ block_exists(chain, 3) /\ ~AwaitsCatchup(3)
  /\ cares_about_shard(Prev(3), 0)
  /\ ~cares_about_shard(Prev(3), 1) /\ will_care_about_shard(Prev(3), 1)
  /\ has_chunk_extra(chain, 3, 0) /\ has_chunk_extra(chain, 3, 1)

\* ------------------------------------------------------------------------
\* The orphans in the pool
\* ------------------------------------------------------------------------
Pooled == DOMAIN chain.orphans.orphans

OrphanReason(b) ==
  \/ ~block_exists(chain, Prev(b))
  \/ ~header_exists(chain, Prev(b))
  \/ /\ is_next_block_epoch_start(Prev(b))
     /\ ~prev_block_is_caught_up(chain, Prev(Prev(b)), Prev(b))

C7_OrphanAboveTail == \A o \in Pooled : Height(o) >= chain.tail

\* C7, amended: a block enters the pool only in a call that finds its
\* height at or above the tail.
C7_OrphanPooledAboveTail ==
  [][\A b \in Blocks : (b \notin Pooled /\ b \in Pooled') => Height(b) >= chain.tail]_vars

\* clear_data has moved the tail above the height of block 8, which has
\* been in the pool since before.
C7_Witness ==
  /\ 8 \in Pooled
  /\ chain.tail > Height(8)
  /\ "reset_heads_post_state_sync" \notin called

\* ------------------------------------------------------------------------
\* The orphan pool
\* ------------------------------------------------------------------------
PoolSize == Cardinality(DOMAIN chain.orphans.orphans)

\* C8: whenever an operation has returned the pool holds at most
\* MAX_ORPHAN_SIZE orphans.
C8_PoolBounded == PoolSize <= MAX_ORPHAN_SIZE

\* The pool overflowed and add evicted orphans from it.
C8_Witness ==
  /\ chain.orphans.evicted > 0
  /\ PoolSize <= MAX_ORPHAN_SIZE
  /\ PoolSize >= MAX_ORPHAN_SIZE - 4


\* C9: at most MAX_ORPHAN_MISSING_CHUNKS orphans are in the set of orphans
\* with outstanding chunk requests, whichever operation marked them.
C9_RequestedBounded ==
  Cardinality(chain.orphans.orphans_requested_missing_chunks) <= MAX_ORPHAN_MISSING_CHUNKS

\* The hashes listed in an index under key k.
Listed(idx, k) == IF k \in DOMAIN idx THEN Range(idx[k]) ELSE {}

\* C10: a hash is listed in height_idx under h iff the pool holds an orphan
\* with that hash at height h, and is listed in prev_hash_idx under p iff
\* the pool holds an orphan with that hash whose prev hash is p.
C10_IndicesConsistent ==
  /\ \A h \in DOMAIN chain.orphans.height_idx :
       \A x \in Listed(chain.orphans.height_idx, h) : x \in Pooled /\ Height(x) = h
  /\ \A p \in DOMAIN chain.orphans.prev_hash_idx :
       \A x \in Listed(chain.orphans.prev_hash_idx, p) : x \in Pooled /\ Prev(x) = p
  /\ \A x \in Pooled :
       /\ x \in Listed(chain.orphans.height_idx, Height(x))
       /\ x \in Listed(chain.orphans.prev_hash_idx, Prev(x))

\* The orphans that add drops for their age at instant `now`.
Stale(pool, now) == {x \in DOMAIN pool.orphans : ~(now - pool.orphans[x] < MAX_ORPHAN_AGE_SECS)}

\* C11: when save_orphan adds an orphan to a full pool whose orphans are all
\* stale, the pool ends with exactly the orphan just added and the eviction
\* counter grows by the number of stale orphans.
C11_StaleDroppedFirst ==
  [][\A b \in PoolOrphans :
       ( /\ b \notin Pooled
         /\ PoolSize = MAX_ORPHAN_SIZE
         /\ Stale(chain.orphans, chain.clock) = Pooled
         /\ SaveOrphan(b, TRUE) )
       => /\ DOMAIN chain'.orphans.orphans = {b}
          /\ chain'.orphans.evicted = chain.orphans.evicted + MAX_ORPHAN_SIZE]_vars

\* ------------------------------------------------------------------------
\* C12: a block whose hash is already in the store is rejected
\* ------------------------------------------------------------------------
\* C12: in every reachable state and for every block whose hash is in the
\* store, Chain::process_block returns the error BlockKnown, and it returns
\* before any chunk-application job is built or run: the chain it leaves is
\* the one it found, with no ChunkExtra, block, head or pool changed and no
\* callback invoked, but for the processed flag of the block's height.
C12_StoredBlockIsKnown ==
  \A b \in Blocks :
    block_exists(chain, b) =>
      LET rejected(r) ==
            /\ ~r.ok
            /\ r.err = "BlockKnown"
            /\ r.st = save_block_height_processed(chain, Height(b))
      IN rejected(Chain_process_block(chain, b))

\* A stored block that is neither the head nor its prev, with a block
\* stored on top of it, is submitted once more and rejected as known.
C12_Witness ==
  \E b \in Blocks :
    /\ block_exists(chain, b)
    /\ b # chain.head
    /\ b # Prev(chain.head)
    /\ Height(b) \in chain.processed_heights
    /\ (Chain_process_block(chain, b)).err = "BlockKnown"

\* ------------------------------------------------------------------------
\* C13: the tip that Chain::process_block returns
\* ------------------------------------------------------------------------
\* C13: in every reachable state and for every block, a call of
\* Chain::process_block that succeeds returns Some(tip) if and only if the
\* head after the call is not the head before it, whether the head was
\* moved by the submitted block or by an orphan processed in the call.
C13_SomeIffHeadAdvanced ==
  \A b \in Blocks :
    LET some_iff_advanced(r) ==
          r.ok => ((r.tip # NoTip) <=> (r.st.head # chain.head))
    IN some_iff_advanced(Chain_process_block(chain, b))

\* ------------------------------------------------------------------------
\* C14: a block that fails leaves the store as it was
\* ------------------------------------------------------------------------
\* What the chain keeps in its store, but for the processed heights.
Stored(st) ==
  << st.blocks, st.headers, st.head, st.header_head, st.final_head, st.refcount,
     st.chunk_extras, st.blocks_to_catchup, st.tail, st.fork_tail, st.challenged >>

\* C14: in every reachable state and for every block, when the processing
\* of the single block fails with whatever error, the stored blocks, the
\* headers, the three heads, the refcounts, the ChunkExtras and the blocks
\* to catch up are what they were before the call, and the only thing
\* written is the processed flag of the block's height.
C14_FailedBlockLeavesStore ==
  \A b \in Blocks :
    LET untouched(r) ==
          ~r.ok =>
            /\ Stored(r.st) = Stored(chain)
            /\ r.st.processed_heights \subseteq chain.processed_heights \cup {Height(b)}
            /\ chain.processed_heights \subseteq r.st.processed_heights
    IN untouched(process_block_single(chain, b))

\* A block is refused for the state root of its chunk, after its header was
\* saved in the ChainUpdate, and a valid block is lost to a commit that
\* fails: the first leaves its height flagged, the second leaves nothing.
C14_Witness ==
  /\ chain.store_fails
  /\ \E b \in Blocks : (process_block_single(chain, b)).err = "IOErr"
  /\ \E b \in Blocks :
        /\ Height(b) \in chain.processed_heights
        /\ ~header_exists(chain, b)
        /\ (process_block_single(chain, b)).err = "InvalidChunkState"

\* ------------------------------------------------------------------------
\* C15: block_accepted comes after the commit
\* ------------------------------------------------------------------------
\* The blocks for which a call invoked block_accepted.
AcceptedIn(st) ==
  {st.events[i].hash : i \in {j \in DOMAIN st.events : st.events[j].cb = "block_accepted"}}

\* C15: in every reachable state and for every block submitted, each block
\* for which Chain::process_block invokes block_accepted, the submitted
\* one or an orphan, was not stored before the call and is stored after
\* it, its store update committed; and while the commits of the store fail
\* the callback is invoked for no block.
C15_AcceptedAfterCommit ==
  \A b \in Blocks :
    LET after_commit(r) ==
          /\ \A a \in AcceptedIn(r.st) :
                ~block_exists(chain, a) /\ block_exists(r.st, a)
          /\ chain.store_fails => AcceptedIn(r.st) = {}
    IN after_commit(Chain_process_block(chain, b))

\* With blocks accepted before, the store fails and a block that passes
\* every check is lost to the commit, and no callback is invoked for it.
C15_Witness ==
  /\ chain.store_fails
  /\ chain.head # Genesis
  /\ \E b \in Blocks :
        /\ (ChainUpdate_process_block(chain, b)).ok
        /\ (Chain_process_block(chain, b)).err = "IOErr"
        /\ (Chain_process_block(chain, b)).st.events = <<>>

\* ------------------------------------------------------------------------
\* C16: what clear_data leaves in the store
\* ------------------------------------------------------------------------
\* C16: in every step that is a successful call of clear_data, the tail
\* after the call is greater than or equal to the tail before it, and every
\* block of the canonical chain, walked back from head, that was stored
\* and whose height is at or above the new tail is still in the store.
C16_ClearDataKeepsCanonical ==
  [][\A n \in 1..GcBlocksLimit :
       (ClearData(n) /\ (clear_data(chain, n)).ok)
       => /\ chain'.tail >= chain.tail
          /\ \A b \in WalkBack(chain'.head) :
                (Height(b) >= chain'.tail /\ block_exists(chain, b))
                => block_exists(chain', b)]_vars

\* clear_data has moved the tail past blocks of the canonical chain, which
\* are gone from the store, and the blocks from the tail up remain.
C16_Witness ==
  /\ chain.tail > 0
  /\ \E b \in WalkBack(chain.head) : Height(b) < chain.tail /\ ~block_exists(chain, b)
  /\ \E b \in WalkBack(chain.head) : Height(b) = chain.tail /\ block_exists(chain, b)
  /\ \A b \in WalkBack(chain.head) : Height(b) >= chain.tail => block_exists(chain, b)

\* ------------------------------------------------------------------------
\* C17: the orphans of a block are processed in the call that accepts it
\* ------------------------------------------------------------------------
\* The orphans in the pool that wait for the block b1, which is not stored.
WaitingFor(b1) == {b2 \in Pooled : Prev(b2) = b1 /\ ~block_exists(chain, b1)}

\* C17 as stated: for every orphan B2 in the pool whose prev B1 is not in
\* the store, after a call of process_block(B1) that succeeds B2 is not in
\* the pool, and if B2 was accepted and is higher than the head was, the
\* head is B2.
C17_OrphanAdoptedAsHead ==
  \A b1 \in Blocks : \A b2 \in WaitingFor(b1) :
    LET adopted(r) ==
          r.ok =>
            /\ ~contains(r.st.orphans, b2)
            /\ (b2 \in AcceptedIn(r.st) /\ Height(b2) > Height(chain.head))
               => r.st.head = b2
    IN adopted(Chain_process_block(chain, b1))

\* C17, amended: for every orphan B2 in the pool whose prev B1 is not in
\* the store, a call of process_block(B1) that succeeds has processed B2:
\* B2 is in the pool on return only if B1 closes an epoch and is not caught
\* up, which makes B2 an orphan once more; and if B2 was accepted and is
\* higher than the head was, the head is B2 or a block accepted in the same
\* call that is at least as high as B2 (a descendant of B2, or a sibling
\* processed first).
C17_OrphanProcessedInCall ==
  \A b1 \in Blocks : \A b2 \in WaitingFor(b1) :
    LET adopted(r) ==
          (r.ok /\ ~r.st.panicked) =>
            /\ contains(r.st.orphans, b2)
               => /\ is_next_block_epoch_start(b1)
                  /\ ~prev_block_is_caught_up(r.st, Prev(b1), b1)
            /\ (b2 \in AcceptedIn(r.st) /\ Height(b2) > Height(chain.head))
               => \/ r.st.head = b2
                  \/ /\ r.st.head \in AcceptedIn(r.st)
                     /\ Height(r.st.head) >= Height(b2)
    IN adopted(Chain_process_block(chain, b1))

\* An orphan waits for its prev, and the call that accepts the prev takes
\* the orphan out of the pool, accepts it and makes it the head.
C17_Witness ==
  \E b1 \in Blocks : \E b2 \in WaitingFor(b1) :
    /\ (Chain_process_block(chain, b1)).ok
    /\ (Chain_process_block(chain, b1)).st.head = b2
    /\ ~contains((Chain_process_block(chain, b1)).st.orphans, b2)

\* ------------------------------------------------------------------------
\* C18: the blocks that wait for their chunks
\* ------------------------------------------------------------------------
\* The chain once the chunks of b have been delivered.
Delivering(b) == [chain EXCEPT !.chunks = @ \cup {b}]

\* C18: in every reachable state, (1) a block whose processing fails with
\* ChunksMissing is in the pool of blocks with missing chunks afterwards
\* and block_misses_chunks was called for it; (2) for a block in that pool
\* whose chunks are then delivered, check_blocks_with_missing_chunks takes
\* it out of the pool and processes it as a single block, and if nothing
\* else is wrong with it the block is accepted and stored; (3) the orphans
\* that wait for it are then processed too, and one of them is in the
\* orphan pool afterwards only when the block closes an epoch that is not
\* caught up.
C18_MissingChunksResubmitted ==
  /\ \A b \in Blocks :
        LET parked(r) ==
              r.err = "ChunksMissing" =>
                /\ b \in r.st.blocks_with_missing_chunks
                /\ \E i \in DOMAIN r.st.events : r.st.events[i] = BlockMissingChunks(b)
        IN parked(process_block_single(chain, b))
  /\ \A b \in chain.blocks_with_missing_chunks \ chain.chunks :
        LET resubmitted(after) ==
              /\ b \notin after.blocks_with_missing_chunks
              /\ Height(b) \in after.processed_heights
              /\ (ChainUpdate_process_block(ready_blocks(Delivering(b)).st, b)).ok
                 => /\ b \in AcceptedIn(after)
                    /\ block_exists(after, b)
                    /\ \A o \in Pooled :
                          (Prev(o) = b /\ contains(after.orphans, o) /\ ~after.panicked)
                          => /\ is_next_block_epoch_start(b)
                             /\ ~prev_block_is_caught_up(after, Prev(b), b)
        IN resubmitted(check_blocks_with_missing_chunks(Delivering(b)))

\* A block waits for its chunks with an orphan waiting for the block; the
\* chunks are delivered, the block is accepted and the orphan after it.
C18_Witness ==
  \E b \in chain.blocks_with_missing_chunks \ chain.chunks :
    \E o \in Pooled :
      /\ Prev(o) = b
      /\ {b, o} \subseteq AcceptedIn(check_blocks_with_missing_chunks(Delivering(b)))

\* ------------------------------------------------------------------------
\* C19: when an accepted block becomes the head
\* ------------------------------------------------------------------------
\* C19: in every reachable state and for every block, when the single
\* block is accepted it is the head afterwards if and only if its height
\* is strictly greater than the height of the head before, and the
\* returned tip says so; when its height is lower or equal the head is the
\* one before.
C19_HeadIffHigher ==
  \A b \in Blocks :
    LET replaced(r) ==
          r.ok =>
            /\ (r.st.head = b) <=> (Height(b) > Height(chain.head))
            /\ (r.tip = b) <=> (Height(b) > Height(chain.head))
            /\ Height(b) <= Height(chain.head) => r.st.head = chain.head
    IN replaced(process_block_single(chain, b))

\* Two blocks can be accepted: one higher than the head, which becomes the
\* head, and one of the height of the head, which does not.
C19_Witness ==
  /\ \E b \in Blocks :
        /\ (process_block_single(chain, b)).ok
        /\ Height(b) = Height(chain.head)
        /\ (process_block_single(chain, b)).st.head = chain.head
  /\ \E b \in Blocks :
        /\ (process_block_single(chain, b)).ok
        /\ Height(b) > Height(chain.head)
        /\ (process_block_single(chain, b)).st.head = b

\* ------------------------------------------------------------------------
\* C20: the status handed to block_accepted
\* ------------------------------------------------------------------------
\* C20: in every reachable state and for every block, when the single
\* block is accepted block_accepted is called once, for that block, with
\* the status Next if the block is the head afterwards and its prev is the
\* head before, Reorg with the hash of the head before if the block is the
\* head afterwards and its prev is another block, and Fork if the head is
\* the one before.
C20_StatusOfAccepted ==
  \A b \in Blocks :
    LET told(r) ==
          r.ok =>
            r.st.events =
              << IF r.st.head = chain.head
                   THEN AcceptedBlock(b, "Fork", DefaultHash)
                 ELSE IF Prev(b) = chain.head
                   THEN AcceptedBlock(b, "Next", DefaultHash)
                 ELSE AcceptedBlock(b, "Reorg", chain.head) >>
    IN told(process_block_single(chain, b))

\* The head is on one branch and a block of another branch, higher
\* than the head, can be accepted: it becomes the head and is reported as
\* a Reorg from the head before.
C20_Witness ==
  \E b \in Blocks :
    /\ Prev(b) # chain.head
    /\ (process_block_single(chain, b)).st.events = <<AcceptedBlock(b, "Reorg", chain.head)>>
    /\ (process_block_single(chain, b)).st.head = b

\* ------------------------------------------------------------------------
\* C21: the assertion of get_orphans_within_depth
\* ------------------------------------------------------------------------
\* C21: whatever orphans process_block has put in the pool, within its
\* capacity, the node never panics: each time check_orphans runs, the list
\* built by get_orphans_within_depth holds at most 100 * target_depth
\* hashes, as its assertion demands.
C21_NeverPanics == ~chain.panicked


\* ------------------------------------------------------------------------
\* Block merkle proofs
\* ------------------------------------------------------------------------
\* The blocks of this part are a chain of MaxOrdinal + 1 blocks, the block
\* at ordinal i being block i (block 0 is the genesis), and next to every
\* block but the genesis a side block ForkBase + i with the same prev, so
\* with the same ordinal.  The block-ordinal column holds the chain.
MaxOrdinal == 16

ForkBase == 100

MerkleBlocks == (0..MaxOrdinal) \cup ((ForkBase + 1)..(ForkBase + MaxOrdinal))

Ordinal(b) == IF b >= ForkBase THEN b - ForkBase ELSE b

\* The hashes of this part are tuples: <<b>> is the hash of block b,
\* <<h1, h2>> the hash of the two hashes h1 and h2, and <<>> is no hash.
hash_of(b) == <<b>>

None == <<>>

NodeMissing == <<0, 0, 0>>

combine_hash(hash1, hash2) == <<hash1, hash2>>

PartialMerkleTree_default == [path |-> <<>>, size |-> 0]

RECURSIVE insert_loop(_, _, _)
insert_loop(path, node, s) ==
  IF s % 2 = 1
  THEN insert_loop(SubSeq(path, 1, Len(path) - 1),
                   combine_hash(path[Len(path)], node), s \div 2)
  ELSE Append(path, node)

PartialMerkleTree_insert(tree, elem) ==
  [path |-> insert_loop(tree.path, elem, tree.size), size |-> tree.size + 1]

RECURSIVE root_loop(_, _, _)
root_loop(path, i, res) ==
  IF i = 0 THEN res ELSE root_loop(path, i - 1, combine_hash(path[i], res))

PartialMerkleTree_root(tree) ==
  IF tree.path = <<>> THEN hash_of(DefaultHash)
  ELSE root_loop(tree.path, Len(tree.path) - 1, tree.path[Len(tree.path)])

\* The tree saved with the header of a block is the tree of its prev with
\* the hash of the prev inserted: the tree over the hashes of its ancestors.
RECURSIVE tree_of_ordinal(_)
tree_of_ordinal(ordinal) ==
  IF ordinal = 0 THEN PartialMerkleTree_default
  ELSE PartialMerkleTree_insert(tree_of_ordinal(ordinal - 1), hash_of(ordinal - 1))

get_block_merkle_tree(block_hash) == tree_of_ordinal(Ordinal(block_hash))

get_block_hash_from_ordinal(ordinal) == hash_of(ordinal)

get_block_merkle_tree_from_ordinal(ordinal) == tree_of_ordinal(ordinal)

\* The mirror image of combine_maybe_hashes.
combine_maybe_hashes_swapped(hash1, hash2) ==
  IF hash1 = NodeMissing \/ hash2 = NodeMissing THEN NodeMissing
  ELSE IF hash1 # None /\ hash2 # None THEN combine_hash(hash2, hash1)
  ELSE IF hash1 # None THEN hash1
  ELSE None

\* Chain::combine_maybe_hashes; the callers pass on the error of either
\* argument with `?` before they call it.
combine_maybe_hashes(hash1, hash2) ==
  IF hash1 = NodeMissing \/ hash2 = NodeMissing THEN NodeMissing
  ELSE IF hash1 # None /\ hash2 # None THEN combine_hash(hash1, hash2)
  ELSE IF hash1 # None THEN hash1
  ELSE None

\* Chain::get_merkle_tree_node and Chain::reconstruct_merkle_tree_node.
\* The tree_nodes cache of one get_block_proof call is left out: the first
\* is only ever asked for an even index and the second for an odd one, so
\* no entry of the cache is read back by the function that did not write it.
\* A node at level 0 past the end of the tree that is there at every odd
\* index: what the arguments of combine_maybe_hashes are tested against.
level_zero_node_odd(index, tree_size) ==
  IF index >= tree_size /\ index % 2 = 0 THEN None
  ELSE get_block_hash_from_ordinal(index)

\* The node at level 0 in both functions.
level_zero_node(index, tree_size) ==
  IF index >= tree_size THEN None ELSE get_block_hash_from_ordinal(index)

RECURSIVE get_merkle_tree_node(_, _, _, _)
RECURSIVE reconstruct_merkle_tree_node(_, _, _, _)
get_merkle_tree_node(index, level, counter, tree_size) ==
  IF level = 0
  THEN level_zero_node(index, tree_size)
  ELSE LET cur_tree_size == (index + 1) * counter
       IN IF cur_tree_size > tree_size
          THEN IF index * counter <= tree_size
               THEN combine_maybe_hashes(
                      get_merkle_tree_node(index * 2, level - 1, counter \div 2, tree_size),
                      reconstruct_merkle_tree_node(index * 2 + 1, level - 1,
                                                   counter \div 2, tree_size))
               ELSE None
          ELSE LET path == get_block_merkle_tree_from_ordinal(cur_tree_size).path
               IN IF path = <<>> THEN NodeMissing ELSE path[Len(path)]

reconstruct_merkle_tree_node(index, level, counter, tree_size) ==
  IF level = 0
  THEN level_zero_node(index, tree_size)
  ELSE combine_maybe_hashes(
         get_merkle_tree_node(index * 2, level - 1, counter \div 2, tree_size),
         reconstruct_merkle_tree_node(index * 2 + 1, level - 1,
                                      counter \div 2, tree_size))

\* The calls of combine_maybe_hashes that get_merkle_tree_node and
\* reconstruct_merkle_tree_node make for a node, each as the pair of its
\* arguments: the calls for the left node, then, unless the left node is an
\* error, those for the right node, then, unless the right node is an
\* error, the call with the two.
RECURSIVE get_node_combines(_, _, _, _)
RECURSIVE reconstruct_node_combines(_, _, _, _)
get_node_combines(index, level, counter, tree_size) ==
  IF level = 0 THEN {}
  ELSE IF (index + 1) * counter > tree_size /\ index * counter <= tree_size
    THEN LET left_hash ==
               get_merkle_tree_node(index * 2, level - 1, counter \div 2, tree_size)
             right_hash ==
               reconstruct_merkle_tree_node(index * 2 + 1, level - 1,
                                            counter \div 2, tree_size)
         IN get_node_combines(index * 2, level - 1, counter \div 2, tree_size)
            \cup (IF left_hash = NodeMissing THEN {}
                  ELSE reconstruct_node_combines(index * 2 + 1, level - 1,
                                                 counter \div 2, tree_size)
                       \cup (IF right_hash = NodeMissing THEN {}
                             ELSE {<<left_hash, right_hash>>}))
  ELSE {}

reconstruct_node_combines(index, level, counter, tree_size) ==
  IF level = 0 THEN {}
  ELSE LET left_hash ==
             get_merkle_tree_node(index * 2, level - 1, counter \div 2, tree_size)
           right_hash ==
             reconstruct_merkle_tree_node(index * 2 + 1, level - 1,
                                          counter \div 2, tree_size)
       IN get_node_combines(index * 2, level - 1, counter \div 2, tree_size)
          \cup (IF left_hash = NodeMissing THEN {}
                ELSE reconstruct_node_combines(index * 2 + 1, level - 1,
                                               counter \div 2, tree_size)
                     \cup (IF right_hash = NodeMissing THEN {}
                           ELSE {<<left_hash, right_hash>>}))

\* The calls of combine_maybe_hashes during the loop of
\* Chain::get_block_proof.
RECURSIVE proof_loop_combines(_, _, _, _, _)
proof_loop_combines(cur_index, level, counter, iter, tree_size) ==
  IF iter <= 1 THEN {}
  ELSE LET sibling == IF cur_index % 2 = 0 THEN cur_index + 1 ELSE cur_index - 1
           maybe_hash ==
             IF sibling % 2 = 1
             THEN reconstruct_merkle_tree_node(sibling, level, counter, tree_size)
             ELSE get_merkle_tree_node(sibling, level, counter, tree_size)
           combines ==
             IF sibling % 2 = 1
             THEN reconstruct_node_combines(sibling, level, counter, tree_size)
             ELSE get_node_combines(sibling, level, counter, tree_size)
       IN combines \cup
          (IF maybe_hash = NodeMissing THEN {}
           ELSE proof_loop_combines(sibling \div 2, level + 1, counter * 2,
                                    (iter + 1) \div 2, tree_size))

\* The calls of combine_maybe_hashes during
\* Chain::get_block_proof(block_hash, head_block_hash).
get_block_proof_combines(block_hash, head_block_hash) ==
  LET leaf_index == get_block_merkle_tree(block_hash).size
      tree_size == get_block_merkle_tree(head_block_hash).size
  IN IF leaf_index >= tree_size THEN {}
     ELSE proof_loop_combines(leaf_index, 0, 1, tree_size, tree_size)

\* The loop of Chain::get_block_proof.
RECURSIVE proof_loop(_, _, _, _, _, _)
proof_loop(path, cur_index, level, counter, iter, tree_size) ==
  IF iter <= 1 THEN [ok |-> TRUE, path |-> path]
  ELSE LET sibling == IF cur_index % 2 = 0 THEN cur_index + 1 ELSE cur_index - 1
           direction == IF sibling % 2 = 0 THEN "Left" ELSE "Right"
           maybe_hash ==
             IF sibling % 2 = 1
             THEN reconstruct_merkle_tree_node(sibling, level, counter, tree_size)
             ELSE get_merkle_tree_node(sibling, level, counter, tree_size)
       IN IF maybe_hash = NodeMissing THEN [ok |-> FALSE, path |-> <<>>]
          ELSE proof_loop(
                 IF maybe_hash # None
                 THEN Append(path, [hash |-> maybe_hash, direction |-> direction])
                 ELSE path,
                 sibling \div 2, level + 1, counter * 2, (iter + 1) \div 2, tree_size)

\* Chain::get_block_proof(block_hash, head_block_hash)
get_block_proof(block_hash, head_block_hash) ==
  LET leaf_index == get_block_merkle_tree(block_hash).size
      tree_size == get_block_merkle_tree(head_block_hash).size
  IN IF leaf_index >= tree_size
     THEN IF block_hash = head_block_hash
          THEN [ok |-> TRUE, path |-> <<>>]
          ELSE [ok |-> FALSE, path |-> <<>>]
     ELSE proof_loop(<<>>, leaf_index, 0, 1, tree_size, tree_size)

\* verify_path(root, path, item)
RECURSIVE compute_root_from_path(_, _, _)
compute_root_from_path(path, i, res) ==
  IF i > Len(path) THEN res
  ELSE compute_root_from_path(path, i + 1,
         IF path[i].direction = "Left" THEN combine_hash(path[i].hash, res)
         ELSE combine_hash(res, path[i].hash))

verify_path(root, path, item) == compute_root_from_path(path, 1, item) = root

\* A light client asks for the proof of a block under a head.
GetBlockProof(block_hash, head_block_hash) ==
  /\ call = NoCall
  /\ call' = [fn |-> "get_block_proof", block_hash |-> block_hash,
              head_block_hash |-> head_block_hash,
              combines |-> get_block_proof_combines(block_hash, head_block_hash),
              ret |-> get_block_proof(block_hash, head_block_hash)]
  /\ UNCHANGED <<chain, called>>

NextMerkle == \E b \in MerkleBlocks, h \in MerkleBlocks : GetBlockProof(b, h)

SpecMerkle == Init /\ [][NextMerkle]_vars

\* The proof that the last call returned verifies the hash of its block
\* against the block merkle root that a block built on its head carries.
ProofVerifies ==
  /\ call.ret.ok
  /\ verify_path(PartialMerkleTree_root(get_block_merkle_tree(call.head_block_hash)),
                 call.ret.path, hash_of(call.block_hash))

\* C22: after every call get_block_proof(block, head) in which the ordinal
\* of the block is smaller than the size of the merkle tree at head, the
\* call has returned a path and the path verifies the hash of the block
\* against the root of the merkle tree at head.
C22_ProofVerifies ==
  (/\ call.fn = "get_block_proof"
   /\ Ordinal(call.block_hash) < get_block_merkle_tree(call.head_block_hash).size)
  => ProofVerifies

\* C22, amended: the same for every block that is on the chain of head, in
\* a store whose block-ordinal column holds the chain of head.
C22_ProofOfAncestorVerifies ==
  (/\ call.fn = "get_block_proof"
   /\ call.block_hash < ForkBase
   /\ Ordinal(call.block_hash) < get_block_merkle_tree(call.head_block_hash).size)
  => ProofVerifies

\* The proof of block 4 under a head of ordinal 11, whose tree is not full:
\* the path has a node that was put together from a stored subtree root and
\* a leaf, and it verifies.
C22_Witness ==
  /\ call.fn = "get_block_proof"
  /\ call.block_hash = 4 /\ call.head_block_hash = 11
  /\ Len(call.ret.path) = 4
  /\ ProofVerifies

\* ------------------------------------------------------------------------
\* The chunk jobs of one block
\* ------------------------------------------------------------------------
\* apply_chunks_preprocessing goes through the shards in shard-id order and
\* pushes a job for each shard it applies; a job returns a result or an
\* error.  The jobs of this part are those of a block of NumJobShards shards.
NumJobShards == 4

RECURSIVE work_from(_, _, _)
work_from(shard_id, applied, failing) ==
  IF shard_id >= NumJobShards THEN <<>>
  ELSE (IF shard_id \in applied
        THEN << [shard_id |-> shard_id, fails |-> shard_id \in failing] >>
        ELSE <<>>) \o work_from(shard_id + 1, applied, failing)

\* The results in the order in which the tasks completed.
collect_as_completed(work, completed) ==
  [k \in 1..Len(completed) |-> work[completed[k]]]

\* work.into_par_iter().map(|task| task()).collect::<Vec<_>>() in
\* do_apply_chunks: an indexed parallel iterator, whose collect puts the
\* result of the i-th task at index i.
collect(work, completed) == [i \in 1..Len(work) |-> work[i]]

\* ChainUpdate::apply_chunks_and_process_results is entered with the jobs
\* of the block.
ApplyChunksStarts(applied, failing) ==
  /\ call = NoCall
  /\ call' = [fn |-> "apply_chunks_and_process_results",
              work |-> work_from(0, applied, failing),
              completed |-> <<>>, collected |-> FALSE, apply_results |-> <<>>,
              processed |-> <<>>, ret |-> "running"]
  /\ UNCHANGED <<chain, called>>

\* A task of the thread pool completes: any task that has not yet.
TaskCompletes(i) ==
  /\ call.fn = "apply_chunks_and_process_results"
  /\ ~call.collected
  /\ i \in 1..Len(call.work)
  /\ \A k \in 1..Len(call.completed) : call.completed[k] # i
  /\ call' = [call EXCEPT !.completed = Append(@, i)]
  /\ UNCHANGED <<chain, called>>

\* do_apply_chunks returns: collect returns when every task has completed.
DoApplyChunksReturns ==
  /\ call.fn = "apply_chunks_and_process_results"
  /\ ~call.collected
  /\ Len(call.completed) = Len(call.work)
  /\ call' = [call EXCEPT !.collected = TRUE,
                          !.apply_results = collect(call.work, call.completed)]
  /\ UNCHANGED <<chain, called>>

\* One round of the try_for_each of apply_chunk_postprocessing: the next
\* result is handed to process_apply_chunk_result, which writes the chunk
\* extra and the outcomes of its shard; an error ends the call.
PostprocessNext ==
  /\ call.fn = "apply_chunks_and_process_results"
  /\ call.collected
  /\ call.ret = "running"
  /\ LET k == Len(call.processed) + 1
     IN call' =
          IF k > Len(call.apply_results) THEN [call EXCEPT !.ret = "Ok"]
          ELSE IF call.apply_results[k].fails THEN [call EXCEPT !.ret = "Err"]
          ELSE [call EXCEPT !.processed = Append(@, call.apply_results[k].shard_id)]
  /\ UNCHANGED <<chain, called>>

NextJobs ==
  \/ \E applied \in SUBSET (0..(NumJobShards - 1)) :
       \E failing \in SUBSET applied : ApplyChunksStarts(applied, failing)
  \/ \E i \in 1..NumJobShards : TaskCompletes(i)
  \/ DoApplyChunksReturns
  \/ PostprocessNext

SpecJobs == Init /\ [][NextJobs]_vars

\* C23: at every point of a call of apply_chunks_and_process_results, the
\* shards whose results were post-processed so far are the shards of the
\* first jobs of the job list, in the order of the list, whatever the order
\* in which the jobs completed; and none was post-processed before every
\* job of the block had completed.
C23_PostprocessedInJobOrder ==
  call.fn = "apply_chunks_and_process_results" =>
    /\ Len(call.processed) <= Len(call.work)
    /\ \A k \in 1..Len(call.processed) :
         call.processed[k] = call.work[k].shard_id
    /\ (call.processed # <<>> \/ call.ret # "running") =>
         Len(call.completed) = Len(call.work)

\* The jobs of three shards completed last job first, and the three results
\* were post-processed first job first.
C23_Witness ==
  /\ call.fn = "apply_chunks_and_process_results"
  /\ call.completed = <<3, 2, 1>>
  /\ call.processed = <<0, 2, 3>>
  /\ call.ret = "Ok"

\* ------------------------------------------------------------------------
\* Splitting a ChunkExtra among the child shards
\* ------------------------------------------------------------------------
\* The shard layouts of the next epoch: for every shard of this epoch, the
\* shards it is split into, which are numbered through the whole layout.
\* In the first a single shard becomes four, in the second two shards become
\* two each, in the third the second shard alone is split.
SplitLayouts ==
  { [p \in {0} |-> <<0, 1, 2, 3>>],
    [p \in {0, 1} |-> IF p = 0 THEN <<0, 1>> ELSE <<2, 3>>],
    [p \in {0, 1} |-> IF p = 0 THEN <<0>> ELSE <<1, 2>>] }

MaxGasUsed == 6

MaxBalanceBurnt == 5

\* ShardLayout::get_split_shard_uids(parent_shard_id)
get_split_shard_uids(shard_layout, parent_shard_id) == shard_layout[parent_shard_id]

RECURSIVE sum_field(_, _, _)
sum_field(extras, k, field) ==
  IF k = 0 THEN 0 ELSE extras[k][field] + sum_field(extras, k - 1, field)

\* ChainUpdate::process_split_state with ApplySplitStateResults, which hold
\* one result for each child shard: the ChunkExtra saved for each child, and
\* whether one of the two assert_eq! at the end fails.
process_split_state(next_epoch_shard_layout, shard_id, total_gas_used, total_balance_burnt) ==
  LET results == get_split_shard_uids(next_epoch_shard_layout, shard_id)
      num_split_shards == Len(results)
      gas_res == total_gas_used % num_split_shards
      gas_split == total_gas_used \div num_split_shards
      balance_res == total_balance_burnt % num_split_shards
      balance_split == total_balance_burnt \div num_split_shards
      extras ==
        [k \in 1..num_split_shards |->
           [shard_id |-> results[k],
            gas_used |-> gas_split + (IF results[k] < gas_res THEN 1 ELSE 0),
            balance_burnt |-> balance_split + (IF results[k] < balance_res THEN 1 ELSE 0)]]
      sum_gas_used == sum_field(extras, num_split_shards, "gas_used")
      sum_balance_burnt == sum_field(extras, num_split_shards, "balance_burnt")
  IN [chunk_extras |-> extras,
      panicked |-> sum_gas_used # total_gas_used \/ sum_balance_burnt # total_balance_burnt]

ProcessSplitState(shard_layout, shard_id, gas_used, balance_burnt) ==
  /\ call = NoCall
  /\ call' = [fn |-> "process_split_state", shard_layout |-> shard_layout,
              shard_id |-> shard_id, gas_used |-> gas_used,
              balance_burnt |-> balance_burnt,
              ret |-> process_split_state(shard_layout, shard_id, gas_used, balance_burnt)]
  /\ UNCHANGED <<chain, called>>

NextSplit ==
  \E shard_layout \in SplitLayouts : \E shard_id \in DOMAIN shard_layout :
    \E gas_used \in 0..MaxGasUsed, balance_burnt \in 0..MaxBalanceBurnt :
      ProcessSplitState(shard_layout, shard_id, gas_used, balance_burnt)

SpecSplit == Init /\ [][NextSplit]_vars

\* C24: after every call of process_split_state, for every layout and every
\* parent shard, the call has not panicked, the k-th child of the parent
\* has the integer quotient of the parent's gas used and of its balance
\* burnt, plus one if k is at most the remainder, and the amounts of the
\* children sum to the totals of the parent.
C24_SplitSumsToTotals ==
  call.fn = "process_split_state" =>
    LET extras == call.ret.chunk_extras
        n == Len(extras)
    IN /\ ~call.ret.panicked
       /\ \A k \in 1..n :
            /\ extras[k].gas_used =
                 (call.gas_used \div n) + (IF k <= call.gas_used % n THEN 1 ELSE 0)
            /\ extras[k].balance_burnt =
                 (call.balance_burnt \div n) + (IF k <= call.balance_burnt % n THEN 1 ELSE 0)
       /\ sum_field(extras, n, "gas_used") = call.gas_used
       /\ sum_field(extras, n, "balance_burnt") = call.balance_burnt

\* ------------------------------------------------------------------------
\* State sync: the state headers and the state parts
\* ------------------------------------------------------------------------
\* state_headers is the column of the state headers, with the keys
\* <<shard_id, sync_hash>>; state_parts is the column of the state parts,
\* with the keys <<sync_hash, shard_id, part_id>>.  A block has a chunk for
\* each of the shards, and the state of a shard is a single part.
num_chunks == Cardinality(Shards)

\* get_num_state_parts(memory_usage)
get_num_state_parts(memory_usage) == 1

\* Chain::get_state_response_header(shard_id, sync_hash): the chunk, the
\* proofs and the receipts of a first block of an epoch whose prev is stored
\* are taken to be in the store.
get_state_response_header(st, shard_id, sync_hash) ==
  IF <<shard_id, sync_hash>> \in st.state_headers THEN [st |-> st, ret |-> "Ok"]
  ELSE IF ~block_exists(st, sync_hash) THEN [st |-> st, ret |-> "StorageError"]
  ELSE IF shard_id >= num_chunks THEN [st |-> st, ret |-> "InvalidStateRequest"]
  ELSE IF ~block_exists(st, Prev(sync_hash)) THEN [st |-> st, ret |-> "DBNotFound"]
  ELSE IF Epoch(sync_hash) = Epoch(Prev(sync_hash))
    THEN [st |-> st, ret |-> "InvalidStateRequest"]
  ELSE [st |-> [st EXCEPT !.state_headers = @ \cup {<<shard_id, sync_hash>>}],
        ret |-> "Ok"]

\* Chain::get_state_response_part(shard_id, part_id, sync_hash)
get_state_response_part(st, shard_id, part_id, sync_hash) ==
  IF <<sync_hash, shard_id, part_id>> \in st.state_parts THEN [st |-> st, ret |-> "Ok"]
  ELSE IF ~block_exists(st, sync_hash) THEN [st |-> st, ret |-> "StorageError"]
  ELSE IF shard_id >= num_chunks THEN [st |-> st, ret |-> "InvalidStateRequest"]
  ELSE IF ~block_exists(st, Prev(sync_hash)) THEN [st |-> st, ret |-> "DBNotFound"]
  ELSE IF Epoch(sync_hash) = Epoch(Prev(sync_hash))
    THEN [st |-> st, ret |-> "InvalidStateRequest"]
  ELSE IF part_id >= get_num_state_parts(0) THEN [st |-> st, ret |-> "InvalidStateRequest"]
  ELSE LET saved(r) ==
             IF r.ret # "Ok" THEN r
             ELSE [st |-> [r.st EXCEPT !.state_parts =
                                   @ \cup {<<sync_hash, shard_id, part_id>>}],
                   ret |-> "Ok"]
       IN saved(get_state_response_header(st, shard_id, sync_hash))

\* Chain::set_state_header(shard_id, sync_hash, shard_state_header): the
\* checks 1 to 5 compare the header with the chunks, the receipts and the
\* state root that the headers before sync_hash commit to; header_valid says
\* whether the header passes them.
set_state_header(st, shard_id, sync_hash, header_valid) ==
  IF ~header_exists(st, sync_hash) THEN [st |-> st, ret |-> "DBNotFound"]
  ELSE IF ~header_exists(st, Prev(sync_hash)) THEN [st |-> st, ret |-> "DBNotFound"]
  ELSE IF ~header_valid THEN [st |-> st, ret |-> "Other"]
  ELSE [st |-> [st EXCEPT !.state_headers = @ \cup {<<shard_id, sync_hash>>}],
        ret |-> "Ok"]

\* Chain::set_state_part(shard_id, sync_hash, part_id, data)
set_state_part(st, shard_id, sync_hash, part_id, data_valid) ==
  IF <<shard_id, sync_hash>> \notin st.state_headers THEN [st |-> st, ret |-> "DBNotFound"]
  ELSE IF ~data_valid THEN [st |-> st, ret |-> "Other"]
  ELSE [st |-> [st EXCEPT !.state_parts = @ \cup {<<sync_hash, shard_id, part_id>>}],
        ret |-> "Ok"]

\* The hashes, shards and parts of the requests of this part: block 3 is the
\* first block of its epoch and block 2 is not; shard 2 and part 1 are out
\* of bounds.
SyncRequestHashes == {2, 3}

SyncRequestShards == {0, 2}

SyncRequestParts == {0, 1}

GetStateResponseHeader(shard_id, sync_hash) ==
  /\ LET k(r) ==
           /\ chain' = r.st
           /\ call' = [fn |-> "get_state_response_header", shard_id |-> shard_id,
                       sync_hash |-> sync_hash,
                       stored |-> block_exists(chain, sync_hash)
                                  /\ block_exists(chain, Prev(sync_hash)),
                       ret |-> r.ret]
     IN k(get_state_response_header(chain, shard_id, sync_hash))
  /\ UNCHANGED called

GetStateResponsePart(shard_id, part_id, sync_hash) ==
  /\ LET k(r) ==
           /\ chain' = r.st
           /\ call' = [fn |-> "get_state_response_part", shard_id |-> shard_id,
                       sync_hash |-> sync_hash,
                       stored |-> block_exists(chain, sync_hash)
                                  /\ block_exists(chain, Prev(sync_hash)),
                       ret |-> r.ret]
     IN k(get_state_response_part(chain, shard_id, part_id, sync_hash))
  /\ UNCHANGED called

SetStateHeader(shard_id, sync_hash, header_valid) ==
  /\ chain' = (set_state_header(chain, shard_id, sync_hash, header_valid)).st
  /\ UNCHANGED <<called, call>>

SetStatePart(shard_id, sync_hash, part_id, data_valid) ==
  /\ chain' = (set_state_part(chain, shard_id, sync_hash, part_id, data_valid)).st
  /\ UNCHANGED <<called, call>>

NextStateSync ==
  \/ \E b \in 1..3 : ProcessBlock(b)
  \/ \E shard_id \in SyncRequestShards, sync_hash \in SyncRequestHashes :
       GetStateResponseHeader(shard_id, sync_hash)
  \/ \E shard_id \in SyncRequestShards, part_id \in SyncRequestParts,
        sync_hash \in SyncRequestHashes :
       GetStateResponsePart(shard_id, part_id, sync_hash)
  \/ \E shard_id \in SyncRequestShards, sync_hash \in SyncRequestHashes,
        header_valid \in BOOLEAN :
       SetStateHeader(shard_id, sync_hash, header_valid)
  \/ \E shard_id \in SyncRequestShards, sync_hash \in SyncRequestHashes,
        part_id \in SyncRequestParts, data_valid \in BOOLEAN :
       SetStatePart(shard_id, sync_hash, part_id, data_valid)

SpecStateSync == Init /\ [][NextStateSync]_vars

\* C25: every call of get_state_response_header and of
\* get_state_response_part with a sync_hash that is a stored block with a
\* stored prev in the same epoch has returned InvalidStateRequest, whatever
\* the columns of the state headers and of the state parts held.
C25_NotFirstOfEpochIsInvalid ==
  (/\ call.fn \in {"get_state_response_header", "get_state_response_part"}
   /\ call.stored
   /\ Epoch(call.sync_hash) = Epoch(Prev(call.sync_hash)))
  => call.ret = "InvalidStateRequest"

\* ------------------------------------------------------------------------
\* Saving an orphan twice
\* ------------------------------------------------------------------------
\* How often a hash is listed under a key of an index of the pool.
listed(idx, k, hash) ==
  IF k \in DOMAIN idx THEN Cardinality({i \in DOMAIN idx[k] : idx[k][i] = hash}) ELSE 0

\* The block is not in the pool and in none of its indices.
Unlisted(pool, b) ==
  /\ ~contains(pool, b)
  /\ listed(pool.height_idx, Height(b), b) = 0
  /\ listed(pool.prev_hash_idx, Prev(b), b) = 0

\* The pool holds the block once, and each index lists it once.
ListedOnce(pool, b) ==
  /\ contains(pool, b)
  /\ listed(pool.height_idx, Height(b), b) = 1
  /\ listed(pool.prev_hash_idx, Prev(b), b) = 1

\* The blocks handed to save_orphan twice.
TwiceSaved == {3, LateOrphan, TallOrphan}

\* C26: in every reachable state of the pool and for every block that is
\* neither in the pool nor in its indices, after two calls of save_orphan
\* with the block, one after the other, the pool holds the block once and
\* the height index and the prev hash index list it once each.
C26_SavedTwiceListedOnce ==
  \A b \in TwiceSaved :
    Unlisted(chain.orphans, b) =>
      LET twice(st) == ListedOnce((Chain_save_orphan(st, b, FALSE)).st.orphans, b)
      IN twice((Chain_save_orphan(chain, b, FALSE)).st)

\* ------------------------------------------------------------------------
\* The incoming receipts of a block
\* ------------------------------------------------------------------------
\* The blocks of this part have NumReceiptShards shards.  A chunk that is
\* new in the block carries one receipt proof for each destination shard,
\* <<from_shard_id, to_shard_id>>, and the partial chunk that a node stores
\* holds them in the order of the destination shards.
NumReceiptShards == 3

ReceiptShards == 0..(NumReceiptShards - 1)

ReceiptBlockHashes == 1..2

\* StdRng: a generator whose state is a number; from_seed takes the hash of
\* the block, and every draw steps the state.
RngModulus == 64

from_seed(seed) == seed % RngModulus

next_u32(rng) == (rng * 5 + 3) % RngModulus

\* SliceRandom::shuffle: for i in (1..len).rev() { swap(i, gen_range(0..=i)) },
\* with the indices from 0.  The result holds the list and the generator.
RECURSIVE shuffle_loop(_, _, _)
shuffle_loop(list, i, rng) ==
  IF i < 1 THEN [list |-> list, rng |-> rng]
  ELSE LET drawn == next_u32(rng)
           j == drawn % (i + 1)
           swapped == [list EXCEPT ![i + 1] = list[j + 1], ![j + 1] = list[i + 1]]
       IN shuffle_loop(swapped, i - 1, drawn)

shuffle(list, rng) == shuffle_loop(list, Len(list) - 1, rng)

\* The first loop of save_incoming_receipts_from_block: the receipt proofs
\* for a shard, pushed chunk by chunk in the order of block.chunks().
RECURSIVE receipt_proofs_by_shard_id(_, _, _)
receipt_proofs_by_shard_id(new_chunks, from_shard_id, to_shard_id) ==
  IF from_shard_id >= NumReceiptShards THEN <<>>
  ELSE (IF from_shard_id \in new_chunks
        THEN << <<from_shard_id, to_shard_id>> >> ELSE <<>>)
       \o receipt_proofs_by_shard_id(new_chunks, from_shard_id + 1, to_shard_id)

\* One generator made before the loop and used for every shard.
shuffle_for_shard_with_one_rng(block_hash, last_rng, receipt_proofs) ==
  shuffle(receipt_proofs, last_rng)

\* The body of the second loop: a generator is made from the hash of the
\* block for each shard, whatever the generator of the round before was.
shuffle_for_shard(block_hash, last_rng, receipt_proofs) ==
  shuffle(receipt_proofs, from_seed(block_hash))

\* The orders in which a HashMap with the destination shards as keys can
\* be iterated: it depends on the hasher of the process.
HashMapOrders ==
  {order \in [1..NumReceiptShards -> ReceiptShards] :
     \A i, j \in 1..NumReceiptShards : i # j => order[i] # order[j]}

ReceiptNodes == {1, 2}

\* Two nodes enter save_incoming_receipts_from_block with the same block.
SaveIncomingReceiptsStarts(block_hash, new_chunks, order1, order2) ==
  /\ call = NoCall
  /\ call' = [fn |-> "save_incoming_receipts_from_block",
              block_hash |-> block_hash, new_chunks |-> new_chunks,
              order |-> <<order1, order2>>,
              rng |-> <<from_seed(block_hash), from_seed(block_hash)>>,
              saved |-> << <<>>, <<>> >>]
  /\ UNCHANGED <<chain, called>>

\* One round of the second loop on a node: the next shard of its HashMap is
\* shuffled and saved with save_incoming_receipt.  `saved` of a node lists
\* the saved lists in the order of its rounds.
SaveIncomingReceipt(node) ==
  /\ call.fn = "save_incoming_receipts_from_block"
  /\ call.new_chunks # {}
  /\ Len(call.saved[node]) < NumReceiptShards
  /\ LET shard_id == call.order[node][Len(call.saved[node]) + 1]
         k(r) ==
           call' = [call EXCEPT !.rng[node] = r.rng,
                                !.saved[node] = Append(@, [shard_id |-> shard_id,
                                                           receipt_proofs |-> r.list])]
     IN k(shuffle_for_shard(call.block_hash, call.rng[node],
                            receipt_proofs_by_shard_id(call.new_chunks, 0, shard_id)))
  /\ UNCHANGED <<chain, called>>

NextReceipts ==
  \/ \E block_hash \in ReceiptBlockHashes, new_chunks \in SUBSET ReceiptShards :
       \E order1 \in HashMapOrders, order2 \in HashMapOrders :
         SaveIncomingReceiptsStarts(block_hash, new_chunks, order1, order2)
  \/ \E node \in ReceiptNodes : SaveIncomingReceipt(node)

SpecReceipts == Init /\ [][NextReceipts]_vars

\* The list that a node saved for a shard, <<>> if it saved none yet.
saved_for(node, shard_id) ==
  LET rounds == {i \in DOMAIN call.saved[node] : call.saved[node][i].shard_id = shard_id}
  IN IF rounds = {} THEN <<>>
     ELSE call.saved[node][CHOOSE i \in rounds : TRUE].receipt_proofs

\* C27: for every destination shard for which both nodes have saved the
\* incoming receipt proofs of the block, the two saved lists are the same
\* list, in the same order, and it is the list of the block's chunks
\* shuffled by a generator seeded with the block hash.
C27_SameOrderOnEveryNode ==
  call.fn = "save_incoming_receipts_from_block" =>
    \A shard_id \in ReceiptShards :
      (saved_for(1, shard_id) # <<>> /\ saved_for(2, shard_id) # <<>>) =>
        /\ saved_for(1, shard_id) = saved_for(2, shard_id)
        /\ saved_for(1, shard_id) =
             shuffle(receipt_proofs_by_shard_id(call.new_chunks, 0, shard_id),
                     from_seed(call.block_hash)).list

\* Both nodes have saved the receipts of every shard of a block with three
\* new chunks, their HashMaps iterated in opposite orders, and the saved
\* order of shard 0 is not the order of the chunks.
C27_Witness ==
  /\ call.fn = "save_incoming_receipts_from_block"
  /\ call.new_chunks = ReceiptShards
  /\ call.order = << <<0, 1, 2>>, <<2, 1, 0>> >>
  /\ Len(call.saved[1]) = NumReceiptShards /\ Len(call.saved[2]) = NumReceiptShards
  /\ saved_for(1, 0) # receipt_proofs_by_shard_id(call.new_chunks, 0, 0)
  /\ saved_for(1, 0) = saved_for(2, 0)

\* ------------------------------------------------------------------------
\* RoutingTableView: the cache of account announcements over the store
\* ------------------------------------------------------------------------
\* The tests of the cache build views over one store, add announcements
\* through a view and ask a view for the owner of an account.  An
\* announcement is the peer id it names for its account, NoPeer where there
\* is none; the store column and the cache of a view map accounts to them.
AnnouncedAccounts == {"near0", "near1"}

AnnouncedPeers == {"peer_id0", "peer_id1"}

NoPeer == "none"

Views == {1, 2}

EmptyAnnouncements == [account_id \in AnnouncedAccounts |-> NoPeer]

\* A view that reads the column of the store into its cache when built.
RoutingTableView_new_preloaded(store) == store

\* RoutingTableView::new(store): the cache starts empty.
RoutingTableView_new(store) == EmptyAnnouncements

\* RoutingTableView::add_account(announce_account): into the cache of the
\* view and into the store.
add_account(account_peers, store, account_id, peer_id) ==
  [account_peers |-> [account_peers EXCEPT ![account_id] = peer_id],
   store |-> [store EXCEPT ![account_id] = peer_id]]

\* RoutingTableView::account_owner(account_id): from the cache, or else
\* from the store, and what the store holds is then put into the cache.
account_owner(account_peers, store, account_id) ==
  IF account_peers[account_id] # NoPeer
    THEN [account_peers |-> account_peers, ret |-> account_peers[account_id]]
  ELSE IF store[account_id] # NoPeer
    THEN [account_peers |-> [account_peers EXCEPT ![account_id] = store[account_id]],
          ret |-> store[account_id]]
  ELSE [account_peers |-> account_peers, ret |-> NoPeer]

\* RoutingTableView::get_announce_accounts(): the announcements of the cache.
get_announce_accounts(account_peers) ==
  {account_id \in AnnouncedAccounts : account_peers[account_id] # NoPeer}

\* create_test_store()
CreateTestStore ==
  /\ call = NoCall
  /\ call' = [fn |-> "RoutingTableView", store |-> EmptyAnnouncements,
              built |-> {}, account_peers |-> [v \in Views |-> EmptyAnnouncements],
              last |-> [op |-> "create_test_store"]]
  /\ UNCHANGED <<chain, called>>

BuildView(view) ==
  /\ call.fn = "RoutingTableView"
  /\ view \notin call.built
  /\ call' = [call EXCEPT !.built = @ \cup {view},
                          !.account_peers[view] = RoutingTableView_new(call.store),
                          !.last = [op |-> "new", view |-> view]]
  /\ UNCHANGED <<chain, called>>

AddAccount(view, account_id, peer_id) ==
  /\ call.fn = "RoutingTableView"
  /\ view \in call.built
  /\ LET k(r) ==
           call' = [call EXCEPT !.account_peers[view] = r.account_peers,
                                !.store = r.store,
                                !.last = [op |-> "add_account", view |-> view]]
     IN k(add_account(call.account_peers[view], call.store, account_id, peer_id))
  /\ UNCHANGED <<chain, called>>

AccountOwner(view, account_id) ==
  /\ call.fn = "RoutingTableView"
  /\ view \in call.built
  /\ LET k(r) ==
           call' = [call EXCEPT !.account_peers[view] = r.account_peers,
                                !.last = [op |-> "account_owner", view |-> view,
                                          account_id |-> account_id,
                                          cached |-> call.account_peers[view][account_id] # NoPeer,
                                          ret |-> r.ret]]
     IN k(account_owner(call.account_peers[view], call.store, account_id))
  /\ UNCHANGED <<chain, called>>

NextRouting ==
  \/ CreateTestStore
  \/ \E view \in Views : BuildView(view)
  \/ \E view \in Views, account_id \in AnnouncedAccounts, peer_id \in AnnouncedPeers :
       AddAccount(view, account_id, peer_id)
  \/ \E view \in Views, account_id \in AnnouncedAccounts : AccountOwner(view, account_id)

SpecRouting == Init /\ [][NextRouting]_vars

ForestOrphans == {7, 8} \cup Twigs

NextForest == \E b \in ForestOrphans : SaveOrphan(b, FALSE)

SpecForest == Init /\ [][NextForest]_vars

\* The orphans of the pool that are `steps` prev links away from the
\* block: its children in the pool, their children in the pool, and so on.
RECURSIVE orphans_at_depth(_, _, _)
orphans_at_depth(pool, parent_hash, steps) ==
  IF steps = 0 THEN {parent_hash}
  ELSE {o \in DOMAIN pool.orphans :
          Prev(o) \in orphans_at_depth(pool, parent_hash, steps - 1)}

orphans_up_to_depth(pool, parent_hash, depth) ==
  UNION {orphans_at_depth(pool, parent_hash, steps) : steps \in 1..depth}

\* C29: in every state of the pool, for every parent and every depth d up to
\* NUM_ORPHAN_ANCESTORS_CHECK, the list that get_orphans_within_depth(parent,
\* d) returns holds exactly the orphans of the pool that are between 1 and d
\* prev links away from parent, each of them once.
C29_ExactlyTheOrphansWithinDepth ==
  \A parent_hash \in {UnknownHash} \cup ForestOrphans :
    \A depth \in 1..NUM_ORPHAN_ANCESTORS_CHECK :
      LET exactly(res) ==
            /\ {res[i] : i \in DOMAIN res} =
                 orphans_up_to_depth(chain.orphans, parent_hash, depth)
            /\ \A i, j \in DOMAIN res : i # j => res[i] # res[j]
      IN exactly((get_orphans_within_depth(chain.orphans, parent_hash, depth)).res)

\* ------------------------------------------------------------------------
\* The orphans found after an eviction
\* ------------------------------------------------------------------------
\* The pool is full of the fillers; a peer hands over block 3 and its
\* sibling 10, and the blocks 4 and 6, as orphans while time passes, and the
\* blocks 1 and 2 arrive at process_block.
EvictOrphans == {3, 4, 6, 10}

EvictBlocks == {1, 2}

NextEvict ==
  \/ \E b \in EvictOrphans : SaveOrphan(b, FALSE)
  \/ \E b \in EvictBlocks : ProcessBlock(b)
  \/ Tick

SpecEvict == InitPool /\ [][NextEvict]_vars

\* C30: in every state of the pool, every hash that
\* get_orphans_within_depth returns for a block and the depth that
\* check_orphans uses is the hash of an orphan that the pool holds, and no
\* call of check_orphans has panicked at the unwrap of orphans.get(hash).
C30_FoundOrphansAreInPool ==
  /\ \A parent_hash \in Blocks :
       LET in_pool(res) == \A i \in DOMAIN res : contains(chain.orphans, res[i])
       IN in_pool((get_orphans_within_depth(chain.orphans, parent_hash,
                                            NUM_ORPHAN_ANCESTORS_CHECK)).res)
  /\ ~chain.panicked

\* ------------------------------------------------------------------------
\* The catch-up of the blocks of an epoch, step by step
\* ------------------------------------------------------------------------
\* BlocksCatchUpState::new.  `entered` is the history of the hashes that
\* were ever put into pending_blocks, and `ret` is what the last
\* catchup_blocks_step returned.
BlocksCatchUpState_new(first_block_hash, epoch_id) ==
  [ fn |-> "catchup_blocks_step",
    first_block_hash |-> first_block_hash,
    epoch_id |-> epoch_id,
    pending_blocks |-> <<first_block_hash>>,
    scheduled_blocks |-> {},
    processed_blocks |-> {},
    done_blocks |-> <<>>,
    entered |-> {first_block_hash},
    ret |-> "none" ]

\* BlocksCatchUpState::is_finished
is_finished(state) ==
  /\ state.pending_blocks = <<>>
  /\ state.scheduled_blocks = {}
  /\ state.processed_blocks = {}

\* The block whose postprocessing failed is forgotten: what the retry of a
\* failed block is tested against.
retry_dropped(state, queued_block) == state

\* The Err arm of the match on block_catch_up_postprocess: the block goes
\* back to pending_blocks.
retry(state, queued_block) ==
  [state EXCEPT !.pending_blocks = Append(@, queued_block)]

\* The first loop of Chain::catchup_blocks_step over the drained
\* processed_blocks, in the order the map hands them out.  A chain that
\* panicked has failed the assertion on the epoch of the next blocks.
RECURSIVE postprocess_processed(_, _, _)
postprocess_processed(st, state, processed) ==
  IF processed = <<>> \/ st.panicked THEN [ok |-> TRUE, st |-> st, state |-> state]
  ELSE
    LET queued_block == Head(processed).hash
        ok_arm(post) ==
          LET next == SetToSeq(get_blocks_to_catchup(post.st, queued_block))
              saw_one == next # <<>>
              s1 == IF saw_one /\ get_epoch_id_from_prev_block(queued_block) # state.epoch_id
                      THEN [post.st EXCEPT !.panicked = TRUE]
                      ELSE post.st
          IN postprocess_processed(s1,
               [state EXCEPT !.pending_blocks = @ \o next,
                             !.entered = @ \cup Range(next),
                             !.done_blocks = Append(@, queued_block)],
               Tail(processed))
        arms(post) ==
          IF post.ok THEN ok_arm(post)
          ELSE postprocess_processed(st, retry(state, queued_block), Tail(processed))
    IN arms(block_catch_up_postprocess(st, queued_block, Head(processed).results))

\* The second loop of Chain::catchup_blocks_step over the drained
\* pending_blocks: an error leaves the loop with `?`, and the blocks that
\* were drained are gone from the vector.
RECURSIVE preprocess_pending(_, _, _)
preprocess_pending(st, state, pending) ==
  IF pending = <<>> THEN [ok |-> TRUE, st |-> st, state |-> state]
  ELSE
    LET pending_block == Head(pending)
        schedule(work) ==
          IF ~work.ok THEN [ok |-> FALSE, st |-> st, state |-> state]
          ELSE preprocess_pending(st,
                 [state EXCEPT !.scheduled_blocks =
                    @ \cup {[hash |-> pending_block, work |-> work.jobs]}],
                 Tail(pending))
    IN IF ~block_exists(st, pending_block) \/ ~block_exists(st, Prev(pending_block))
         THEN [ok |-> FALSE, st |-> st, state |-> state]
         ELSE schedule(apply_chunks_preprocessing(st, pending_block, "CatchingUp"))

\* Chain::catchup_blocks_step.  `processed` lists the processed blocks in
\* the order processed_blocks.drain() yields them.
catchup_blocks_step(st, state, processed) ==
  LET second(r) ==
        IF r.st.panicked THEN r
        ELSE preprocess_pending(r.st, [r.state EXCEPT !.pending_blocks = <<>>],
                                r.state.pending_blocks)
  IN second(postprocess_processed(st, [state EXCEPT !.processed_blocks = {}], processed))

\* The orders in which a hash map may hand out its entries.
DrainOrders(S) ==
  {order \in [1..Cardinality(S) -> S] :
     \A i, j \in 1..Cardinality(S) : i # j => order[i] # order[j]}

\* The client starts the catch-up of the epoch that begins with sync_hash.
NewBlocksCatchUpState(sync_hash) ==
  /\ ~chain.panicked
  /\ call = NoCall
  /\ is_next_block_epoch_start(Prev(sync_hash))
  /\ <<Prev(sync_hash), sync_hash>> \in chain.blocks_to_catchup
  /\ call' = BlocksCatchUpState_new(sync_hash, Epoch(sync_hash))
  /\ UNCHANGED <<chain, called>>

\* Chain::catchup_blocks_step(me, sync_hash, blocks_catch_up_state, scheduler)
CatchupBlocksStep ==
  /\ ~chain.panicked
  /\ call.fn = "catchup_blocks_step"
  /\ ~is_finished(call)
  /\ \E processed \in DrainOrders(call.processed_blocks) :
       \E r \in {catchup_blocks_step(chain, call, processed)} :
         /\ chain' = returned(r.st)
         /\ call' = [r.state EXCEPT !.ret = IF r.ok THEN "Ok" ELSE "Err"]
  /\ UNCHANGED called

\* The answer to a BlockCatchUpRequest: the jobs have run, and the client
\* moves the block from scheduled_blocks to processed_blocks.
BlockCatchUpResponse(block_hash) ==
  /\ ~chain.panicked
  /\ call.fn = "catchup_blocks_step"
  /\ \E request \in call.scheduled_blocks :
       /\ request.hash = block_hash
       /\ call' = [call EXCEPT
            !.scheduled_blocks = @ \ {request},
            !.processed_blocks = @ \cup
              {[hash |-> block_hash, results |-> do_apply_chunks(block_hash, request.work)]}]
  /\ UNCHANGED <<chain, called>>

\* Chain::finish_catchup_blocks, called by the client once the state
\* is finished.
FinishCatchupBlocks ==
  /\ ~chain.panicked
  /\ call.fn = "catchup_blocks_step"
  /\ is_finished(call)
  /\ chain' = returned((finish_catchup_blocks(chain, call.first_block_hash,
                                              call.done_blocks)).st)
  /\ call' = NoCall
  /\ UNCHANGED called

\* The blocks of the first two epochs arrive while the shard of the next
\* epoch is caught up, on a store whose writes can fail.
CatchupDelivered == {1, 2, 3, 4, 10}

NextCatchup ==
  \/ \E b \in CatchupDelivered : ProcessBlock(b)
  \/ \E b \in CatchupDelivered : NewBlocksCatchUpState(b)
  \/ CatchupBlocksStep
  \/ \E b \in CatchupDelivered : BlockCatchUpResponse(b)
  \/ FinishCatchupBlocks
  \/ StoreBreaks
  \/ StoreRecovers

SpecCatchup == Init /\ [][NextCatchup]_vars

\* How often a hash sits in the three collections of blocks in flight.
in_flight(state, b) ==
  Cardinality({i \in DOMAIN state.pending_blocks : state.pending_blocks[i] = b})
  + Cardinality({r \in state.scheduled_blocks : r.hash = b})
  + Cardinality({r \in state.processed_blocks : r.hash = b})

\* C31: at every return of catchup_blocks_step, Ok or Err, every block that
\* entered the BlocksCatchUpState and is not done is in exactly one of
\* pending_blocks, scheduled_blocks and processed_blocks.
C31_NoBlockIsDropped ==
  (call.fn = "catchup_blocks_step" /\ call.ret # "none") =>
    \A b \in call.entered \ Range(call.done_blocks) : in_flight(call, b) = 1

\* The client calls catchup_blocks_step again and again, and every
\* BlockCatchUpRequest handed to the scheduler is answered.
\* A call of catchup_blocks_step changes the state: there are blocks to
\* drain, or the result of the last call was not Ok.
StepCanChange ==
  /\ ~chain.panicked
  /\ call.fn = "catchup_blocks_step"
  /\ ~is_finished(call)
  /\ (call.pending_blocks # <<>> \/ call.processed_blocks # {} \/ call.ret # "Ok")

\* Weak fairness of CatchupBlocksStep, WF_vars(CatchupBlocksStep), with
\* the enabling condition of the step written out.
CatchupBlocksStepIsRepeated ==
  []<>(~StepCanChange) \/ []<><<CatchupBlocksStep>>_vars

SpecCatchupFair ==
  /\ Init
  /\ [][NextCatchup]_vars
  /\ CatchupBlocksStepIsRepeated
  /\ WF_vars(\E b \in CatchupDelivered : BlockCatchUpResponse(b))

\* The blocks reachable from a block through blocks_to_catchup.
RECURSIVE reachable_to_catchup(_, _)
reachable_to_catchup(st, frontier) ==
  LET next == UNION {get_blocks_to_catchup(st, b) : b \in frontier}
  IN IF next \subseteq frontier THEN frontier
     ELSE reachable_to_catchup(st, frontier \cup next)

\* The catch-up of the epoch that starts with first_block_hash is running.
CatchupRuns(first_block_hash) ==
  /\ call.fn = "catchup_blocks_step"
  /\ call.first_block_hash = first_block_hash

\* It is running and has blocks in flight.
CatchupUnfinished(first_block_hash) ==
  CatchupRuns(first_block_hash) /\ ~is_finished(call)

\* It is finished, and done_blocks holds the first block and every block
\* reachable from it, each once.
CatchupComplete(first_block_hash) ==
  /\ CatchupRuns(first_block_hash)
  /\ is_finished(call)
  /\ Range(call.done_blocks) = reachable_to_catchup(chain, {first_block_hash})
  /\ Len(call.done_blocks) = Cardinality(Range(call.done_blocks))

\* A catchup_blocks_step call returned Err.
StepFailed == call.fn = "catchup_blocks_step" /\ call.ret = "Err"

clear_data_forks_pass(st, gc_blocks_limit) ==
  LET head == st.head
      tail == st.tail
      gc_stop_height == get_gc_stop_height(head)
      epoch_change == Epoch(Prev(head)) # Epoch(head)
      s1 == IF epoch_change /\ st.fork_tail < gc_stop_height
              THEN update_fork_tail(st, gc_stop_height) ELSE st
      fork_tail == s1.fork_tail
      lowered == IF fork_tail > GC_FORK_CLEAN_STEP
                   THEN fork_tail - GC_FORK_CLEAN_STEP ELSE 0
      stop_height == IF tail > lowered THEN tail ELSE lowered
  IN IF gc_stop_height > Height(head) \/ ~header_exists(st, Prev(head))
       THEN [ok |-> FALSE, st |-> st, left |-> gc_blocks_limit, done |-> TRUE]
       ELSE forks_cleaning(s1, fork_tail - 1, stop_height, gc_blocks_limit)

\* Chain::clear_data(tries, gc_blocks_limit), with a record of the call:
\* the store before it, after the forks cleaning loop and after the call,
\* and the result.
ClearDataCall(gc_blocks_limit) ==
  /\ ~chain.panicked
  /\ \E r \in {clear_data(chain, gc_blocks_limit)},
        forks \in {clear_data_forks_pass(chain, gc_blocks_limit)} :
       /\ chain' = r.st
       /\ call' = [ fn |-> "clear_data",
                    gc_blocks_limit |-> gc_blocks_limit,
                    blocks_before |-> chain.blocks,
                    refcount_before |-> chain.refcount,
                    tail_before |-> chain.tail,
                    forks_ok |-> forks.ok,
                    forks_done |-> forks.done,
                    forks_left |-> forks.left,
                    blocks_after_forks |-> forks.st.blocks,
                    refcount_after_forks |-> forks.st.refcount,
                    blocks_after |-> r.st.blocks,
                    tail_after |-> r.st.tail,
                    head |-> chain.head,
                    err |-> r.err ]
  /\ UNCHANGED called

\* The chain grows to the third epoch, with the fork block 7 and the block
\* built on it, and the client collects garbage at any moment.
GcDelivered == (1..7) \cup {ForkChild}

NextGc ==
  \/ \E b \in GcDelivered : ProcessBlock(b)
  \/ \E b \in GcDelivered : ChunksArrive(b)
  \/ \E b \in GcDelivered : CatchupBlocks(b)
  \/ \E n \in 1..GcBlocksLimit : ClearDataCall(n)

SpecGc == Init /\ [][NextGc]_vars

\* The blocks one call of clear_data removed in its forks cleaning loop
\* and in the whole call.
ClearedByForks == call.blocks_before \ call.blocks_after_forks

ClearedByCall == call.blocks_before \ call.blocks_after

\* C33: a call of clear_data clears at most gc_blocks_limit blocks, the
\* blocks the forks cleaning and the canonical chain clearing remove counted
\* together.
C33_ClearsAtMostTheLimit ==
  call.fn = "clear_data" => Cardinality(ClearedByCall) <= call.gc_blocks_limit

\* One call has removed a fork block and a block of the canonical chain,
\* and used up its limit of two with them.
C33_Witness ==
  /\ call.fn = "clear_data"
  /\ call.err = ""
  /\ call.gc_blocks_limit = 2
  /\ Cardinality(ClearedByForks) = 1
  /\ Cardinality(ClearedByCall) = 2

CanonicalClearingRan ==
  call.fn = "clear_data" /\ call.forks_ok /\ ~call.forks_done

\* The blocks at a height when the canonical chain clearing loop gets to
\* it, the one the loop takes, and the refcount of its prev.
BlocksAtHeight(height) == {b \in call.blocks_after_forks : Height(b) = height}

TakenAtHeight(height) == Head(SetToSeq(BlocksAtHeight(height)))

PrevRefcountAt(height) ==
  IF Prev(TakenAtHeight(height)) \in Hashes
    THEN call.refcount_after_forks[Prev(TakenAtHeight(height))]
    ELSE 0

\* The height at which the canonical chain clearing loop of the call
\* left, when it did not run out of heights or of blocks to clear.
LeftAtHeight(height) ==
  /\ CanonicalClearingRan
  /\ height = call.tail_after + 1
  /\ height < get_gc_stop_height(call.head)
  /\ Cardinality(ClearedByCall) < call.gc_blocks_limit

\* The canonical chain clearing of a height whose block has a prev that
\* lost its references: the loop run on the store for that height alone.
canonical_clearing_unreferenced(st, height) ==
  LET taken == Head(SetToSeq(get_all_block_hashes_by_height(st, height)))
  IN canonical_clearing([st EXCEPT !.refcount[Prev(taken)] = 0], height, height + 1, 1)

\* C35: the canonical chain clearing moves the tail to the height of a
\* block, and clears data for it, only when the prev of that block has
\* refcount 1; at a height where that refcount is above 1 it stops, the
\* call returns Ok and the tail stays below that height; and on a store in
\* which that refcount is 0 the result is GCError with the tail unmoved.
C35_CanonicalClearingByRefcount ==
  /\ call.fn = "clear_data" =>
       \A height \in (call.tail_before + 1)..call.tail_after :
         /\ CanonicalClearingRan
         /\ BlocksAtHeight(height) # {} =>
              /\ PrevRefcountAt(height) = 1
              /\ Prev(TakenAtHeight(height)) \notin call.blocks_after
  /\ call.fn = "clear_data" =>
       \A height \in 1..(Height(call.head)) :
         LeftAtHeight(height) =>
           /\ BlocksAtHeight(height) # {}
           /\ PrevRefcountAt(height) # 1
           /\ PrevRefcountAt(height) > 1 => call.err = ""
           /\ PrevRefcountAt(height) = 0 => call.err = "GCError"
  /\ \A height \in (chain.tail + 1)..(Height(chain.head)) :
       (get_all_block_hashes_by_height(chain, height) # {}
        /\ Prev(Head(SetToSeq(get_all_block_hashes_by_height(chain, height)))) \in Hashes) =>
         /\ (canonical_clearing_unreferenced(chain, height)).err = "GCError"
         /\ (canonical_clearing_unreferenced(chain, height)).st.tail = chain.tail

\* One call has cleared the genesis block for block 1 and moved the tail to
\* height 1, and has stopped at height 2, where block 1 has the references
\* of block 2 and of the fork block 7.
C35_Witness ==
  /\ call.fn = "clear_data"
  /\ call.err = ""
  /\ call.tail_before = 0
  /\ call.tail_after = 1
  /\ Genesis \notin call.blocks_after
  /\ LeftAtHeight(2)
  /\ PrevRefcountAt(2) = 2

\* ------------------------------------------------------------------------
\* The incoming receipts of a state header
\* ------------------------------------------------------------------------
\* BlockHeader::chunks_included
chunks_included(b) == Cardinality({s \in Shards : is_new_chunk(b, s)})

\* No check of the shards the proofs of one block come from: what the
\* validation of the incoming receipts is tested against.
from_shard_ids_unchecked(receipt_proofs) == TRUE

\* 4d of Chain::set_state_header: the from_shard_id of the proofs of one
\* block are distinct.
from_shard_ids_distinct(receipt_proofs) ==
  \A i, j \in DOMAIN receipt_proofs : i # j => receipt_proofs[i] # receipt_proofs[j]

\* The loop of Chain::set_state_header over incoming_receipts_proofs (4b to
\* 4f): the hash that is left to compare, or the failure.  An entry is a
\* block hash with the from_shard_id of its proofs; root_proofs holds the
\* number of root proofs per entry, and proofs_verify says whether the
\* merkle paths of 4e and 4f verify.
RECURSIVE check_incoming_receipts(_, _, _, _, _)
check_incoming_receipts(st, hash_to_compare, proofs, root_proofs, proofs_verify) ==
  IF proofs = <<>> THEN [ok |-> TRUE, hash_to_compare |-> hash_to_compare]
  ELSE
    LET block_hash == Head(proofs).block_hash
        receipt_proofs == Head(proofs).receipt_proofs
    IN IF block_hash # hash_to_compare THEN [ok |-> FALSE, hash_to_compare |-> hash_to_compare]
       ELSE IF ~header_exists(st, hash_to_compare)
         THEN [ok |-> FALSE, hash_to_compare |-> hash_to_compare]
       ELSE IF \/ Len(receipt_proofs) # Head(root_proofs)
               \/ Len(receipt_proofs) # chunks_included(block_hash)
         THEN [ok |-> FALSE, hash_to_compare |-> hash_to_compare]
       ELSE IF ~from_shard_ids_distinct(receipt_proofs)
         THEN [ok |-> FALSE, hash_to_compare |-> hash_to_compare]
       ELSE IF ~proofs_verify THEN [ok |-> FALSE, hash_to_compare |-> hash_to_compare]
       ELSE check_incoming_receipts(st, Prev(hash_to_compare), Tail(proofs),
                                    Tail(root_proofs), proofs_verify)

\* No prev chunk header in a state header.
NoPrevChunk == 0 - 1

\* 4 of Chain::set_state_header: 4a, the loop, and 4g.
incoming_receipts_valid(st, sync_hash, shard_state_header) ==
  LET last(walk) ==
        /\ walk.ok
        /\ header_exists(st, walk.hash_to_compare)
        /\ Height(walk.hash_to_compare) =
             (IF shard_state_header.prev_chunk_height_included = NoPrevChunk
                THEN 0 ELSE shard_state_header.prev_chunk_height_included)
  IN /\ Len(shard_state_header.root_proofs) = Len(shard_state_header.incoming_receipts_proofs)
     /\ last(check_incoming_receipts(st, sync_hash,
                                     shard_state_header.incoming_receipts_proofs,
                                     shard_state_header.root_proofs,
                                     shard_state_header.proofs_verify))

\* Chain::set_state_header with the header given by its incoming receipts,
\* the height_included of its prev chunk header, and whether it passes the
\* checks of the chunk, of its inclusion and of the state root node (1 to 3
\* and 5).
set_state_header_of(st, shard_id, sync_hash, shard_state_header) ==
  set_state_header(st, shard_id, sync_hash,
                   /\ shard_state_header.chunk_valid
                   /\ header_exists(st, sync_hash)
                   /\ incoming_receipts_valid(st, sync_hash, shard_state_header))

\* The state headers a peer may send for the sync hash 3: up to
\* MaxReceiptBlocks entries, each for one of the blocks 1, 2, 3 and 7 and
\* with proofs from shard 0, from both shards, or from shard 0 twice.
MaxReceiptBlocks == 3

ReceiptEntries ==
  [block_hash : {1, 2, 3, 7}, receipt_proofs : {<<0>>, <<0, 1>>, <<0, 0>>}]

StateHeaders ==
  UNION {[chunk_valid : {TRUE},
          proofs_verify : {TRUE},
          prev_chunk_height_included : {NoPrevChunk, 1, 2},
          incoming_receipts_proofs : {proofs},
          root_proofs : {[i \in DOMAIN proofs |-> Len(proofs[i].receipt_proofs)]}]
         : proofs \in UNION {[1..n -> ReceiptEntries] : n \in 0..MaxReceiptBlocks}}

\* A header whose proofs do not verify, one whose chunk is not valid, and
\* one with a root proof missing.
BrokenStateHeaders ==
  LET good == [chunk_valid |-> TRUE, proofs_verify |-> TRUE,
               prev_chunk_height_included |-> 2,
               incoming_receipts_proofs |-> <<[block_hash |-> 3, receipt_proofs |-> <<0>>]>>,
               root_proofs |-> <<1>>]
  IN {[good EXCEPT !.proofs_verify = FALSE],
      [good EXCEPT !.chunk_valid = FALSE],
      [good EXCEPT !.root_proofs = <<>>]}

\* Chain::set_state_header(shard_id, sync_hash, shard_state_header), once
\* the header of the sync block is known.
SetStateHeaderOf(shard_id, sync_hash, shard_state_header) ==
  /\ ~chain.panicked
  /\ call = NoCall
  /\ header_exists(chain, sync_hash)
  /\ \E r \in {set_state_header_of(chain, shard_id, sync_hash, shard_state_header)} :
       /\ chain' = r.st
       /\ call' = [fn |-> "set_state_header", shard_id |-> shard_id,
                   sync_hash |-> sync_hash, shard_state_header |-> shard_state_header,
                   ret |-> r.ret]
  /\ UNCHANGED called

NextStateHeader ==
  \/ \E b \in 1..3 : ProcessBlock(b)
  \/ /\ call = NoCall
     /\ \E shard_state_header \in StateHeaders \cup BrokenStateHeaders :
          SetStateHeaderOf(0, 3, shard_state_header)

SpecStateHeader == Init /\ [][NextStateHeader]_vars

\* The chain walked back from a block through prev_hash down to, and
\* excluding, the block at a height; a chain that has no block at that
\* height ends with the hash no block has.
RECURSIVE chain_down_to(_, _)
chain_down_to(b, height) ==
  IF b \notin Blocks \cup {Genesis} THEN <<DefaultHash>>
  ELSE IF Height(b) = height THEN <<>>
  ELSE IF b = Genesis THEN <<DefaultHash>>
  ELSE <<b>> \o chain_down_to(Prev(b), height)

\* What the claim asks of the incoming receipts of a header.
ReceiptsAsClaimed(sync_hash, shard_state_header) ==
  LET proofs == shard_state_header.incoming_receipts_proofs
      height == IF shard_state_header.prev_chunk_height_included = NoPrevChunk
                  THEN 0 ELSE shard_state_header.prev_chunk_height_included
  IN /\ [i \in DOMAIN proofs |-> proofs[i].block_hash] = chain_down_to(sync_hash, height)
     /\ \A i \in DOMAIN proofs :
          /\ Len(proofs[i].receipt_proofs) = chunks_included(proofs[i].block_hash)
          /\ Cardinality(Range(proofs[i].receipt_proofs)) = Len(proofs[i].receipt_proofs)

\* C36: set_state_header returns Ok only for a header whose incoming
\* receipts list exactly the blocks walked back from sync_hash down to, and
\* excluding, the block at the height_included of the prev chunk (0 without
\* one), with as many proofs per entry as the block has chunks included and
\* distinct from_shard_id within an entry; when it returns an error no
\* header is stored.
C36_ReceiptsCheckedBeforeStored ==
  call.fn = "set_state_header" =>
    /\ call.ret = "Ok" => ReceiptsAsClaimed(call.sync_hash, call.shard_state_header)
    /\ call.ret # "Ok" => <<call.shard_id, call.sync_hash>> \notin chain.state_headers

\* The header with the receipts of the blocks 3 and 2, one proof and two
\* proofs, and a prev chunk included at height 1 was accepted and stored.
C36_Witness ==
  /\ call.fn = "set_state_header"
  /\ call.ret = "Ok"
  /\ Len(call.shard_state_header.incoming_receipts_proofs) = 2
  /\ call.shard_state_header.prev_chunk_height_included = 1
  /\ <<call.shard_id, call.sync_hash>> \in chain.state_headers

\* ------------------------------------------------------------------------
\* The end of state sync: set_state_finalize
\* ------------------------------------------------------------------------
\* ChainStoreAccess::get_header_on_chain_by_height(sync_hash, height): the
\* header at the height on the chain that ends in sync_hash, NoTip for the
\* error.
get_header_on_chain_by_height(st, sync_hash, height) ==
  IF ~header_exists(st, sync_hash) THEN NoTip
  ELSE LET found(b) == IF b = NoTip \/ ~header_exists(st, b) THEN NoTip ELSE b
       IN found(ancestor_at(sync_hash, height))

\* ShardChunkHeader::height_included of the chunk header block b carries
\* for shard s.
RECURSIVE height_included(_, _)
height_included(b, s) ==
  IF b \notin Blocks THEN 0
  ELSE IF is_new_chunk(b, s) THEN Height(b)
  ELSE height_included(Prev(b), s)

\* ShardStateSyncResponseHeader::chunk_height_included of the state header
\* stored for (shard_id, sync_hash): its chunk is the one the prev block of
\* sync_hash carries for the shard (3a of Chain::set_state_header).
chunk_height_included(shard_id, sync_hash) == height_included(Prev(sync_hash), shard_id)

\* ChainUpdate::set_state_finalize: the chunk is applied again at the block
\* that included it.
ChainUpdate_set_state_finalize(st, shard_id, sync_hash) ==
  LET applied(b) ==
        IF b = NoTip THEN Err(st, "Other")
        ELSE IF b # Genesis /\ ~header_exists(st, Prev(b)) THEN Err(st, "DBNotFound")
        ELSE OkNone(save_chunk_extra(st, b, shard_id,
               apply_transactions(prev_state_root(b, shard_id), b, shard_id, TRUE)))
  IN applied(get_header_on_chain_by_height(st, sync_hash,
                                           chunk_height_included(shard_id, sync_hash)))

\* The replay never takes a block for the block of sync_hash: what the end
\* of the replay is tested against.
is_sync_hash_never(block_hash, sync_hash) == FALSE

\* block_header.hash() == &sync_hash in set_state_finalize_on_height
is_sync_hash(block_hash, sync_hash) == block_hash = sync_hash

\* ChainUpdate::set_state_finalize_on_height: continue says whether to
\* commit and go on, wrote is the block a ChunkExtra was written for.
set_state_finalize_on_height(st, height, shard_id, sync_hash) ==
  LET on(b) ==
        IF b = NoTip THEN [ok |-> TRUE, st |-> st, continue |-> TRUE, wrote |-> NoTip]
        ELSE IF is_sync_hash(b, sync_hash)
          THEN [ok |-> TRUE, st |-> st, continue |-> FALSE, wrote |-> NoTip]
        ELSE IF ~header_exists(st, Prev(b)) \/ ~has_chunk_extra(st, Prev(b), shard_id)
          THEN [ok |-> FALSE, st |-> st, continue |-> FALSE, wrote |-> NoTip]
        ELSE [ok |-> TRUE,
              st |-> save_chunk_extra(st, b, shard_id,
                       apply_transactions(st.chunk_extras[<<Prev(b), shard_id>>],
                                          b, shard_id, FALSE)),
              continue |-> TRUE, wrote |-> b]
  IN on(get_header_on_chain_by_height(st, sync_hash, height))

\* The heights the replay of one call may reach.
MaxReplayHeight == 9

\* Chain::set_state_finalize up to its loop.
SetStateFinalize(shard_id, sync_hash, apply_result_ok) ==
  /\ ~chain.panicked
  /\ call = NoCall
  /\ LET begun(r) ==
           LET ok == /\ apply_result_ok
                     /\ <<shard_id, sync_hash>> \in chain.state_headers
                     /\ r.ok
                     /\ ~chain.store_fails
           IN /\ chain' = IF ok THEN r.st ELSE chain
              /\ call' = [fn |-> "set_state_finalize", shard_id |-> shard_id,
                          sync_hash |-> sync_hash,
                          height |-> chunk_height_included(shard_id, sync_hash),
                          visited |-> <<>>, skipped |-> {},
                          wrote |-> IF ok
                                      THEN {get_header_on_chain_by_height(chain, sync_hash,
                                              chunk_height_included(shard_id, sync_hash))}
                                      ELSE {},
                          ret |-> IF ok THEN "none" ELSE "Err"]
     IN begun(ChainUpdate_set_state_finalize(chain, shard_id, sync_hash))
  /\ UNCHANGED called

\* One round of the loop of Chain::set_state_finalize.
SetStateFinalizeOnHeight ==
  /\ call.fn = "set_state_finalize"
  /\ call.ret = "none"
  /\ call.height < MaxReplayHeight
  /\ LET height == call.height + 1
         round(r) ==
           LET committed == r.ok /\ r.continue /\ ~chain.store_fails
           IN /\ chain' = IF committed THEN r.st ELSE chain
              /\ call' = [call EXCEPT
                            !.height = height,
                            !.visited = Append(@, height),
                            !.skipped = IF committed /\ r.wrote = NoTip
                                          THEN @ \cup {height} ELSE @,
                            !.wrote = IF committed /\ r.wrote # NoTip
                                        THEN @ \cup {r.wrote} ELSE @,
                            !.ret = IF ~r.ok THEN "Err"
                                    ELSE IF ~r.continue THEN "Ok"
                                    ELSE IF chain.store_fails THEN "Err"
                                    ELSE "none"]
     IN round(set_state_finalize_on_height(chain, height, call.shard_id, call.sync_hash))
  /\ UNCHANGED called

InFinalize == call.fn = "set_state_finalize" /\ call.ret = "none"

\* The state headers that are finalized: shard 0 before block 4, whose chunk
\* was included two blocks before, the shards before block 3, and shard 1
\* before block 6, which follows a height without a block.
FinalizedStateHeaders == {<<0, 4>>, <<0, 3>>, <<1, 3>>, <<1, 6>>}

NextFinalize ==
  \/ /\ ~InFinalize
     /\ \/ \E b \in 1..3 : ProcessBlock(b)
        \/ \E headers \in {<<1, 2, 3>>, <<4, 5, 6>>} : SyncBlockHeaders(headers)
        \/ \E h \in FinalizedStateHeaders, header_valid \in BOOLEAN :
             SetStateHeader(h[1], h[2], header_valid)
  \/ \E h \in FinalizedStateHeaders, apply_result_ok \in BOOLEAN :
       SetStateFinalize(h[1], h[2], apply_result_ok)
  \/ SetStateFinalizeOnHeight
  \/ StoreBreaks
  \/ StoreRecovers

\* The loop of a call that has begun goes on: the caller holds the chain
\* until the call returns.
SpecFinalizeFair == Init /\ [][NextFinalize]_vars /\ WF_vars(SetStateFinalizeOnHeight)

\* The blocks of the chain of sync_hash from the height on, sync_hash
\* excluded.
RECURSIVE replayed_blocks(_, _)
replayed_blocks(b, height) ==
  IF b \notin Blocks \/ Height(b) < height THEN {}
  ELSE {b} \cup replayed_blocks(Prev(b), height)

FinalizeAsClaimed ==
  LET first == chunk_height_included(call.shard_id, call.sync_hash)
      last == Height(call.sync_hash)
      between == replayed_blocks(Prev(call.sync_hash), first)
  IN /\ call.visited = [i \in 1..(last - first) |-> first + i]
     /\ call.wrote = between
     /\ \A b \in between : has_chunk_extra(chain, b, call.shard_id)
     /\ call.skipped = {h \in (first + 1)..(last - 1) : \A b \in between : Height(b) # h}

\* C37: a call of set_state_finalize returns; when it returns Ok the loop
\* has visited the heights after height_included one by one up to the height
\* of sync_hash, has written a ChunkExtra of the shard for each block of the
\* chain of sync_hash from height_included to the block before sync_hash,
\* has passed the heights without a block, and has stopped at the block of
\* sync_hash.
C37_FinalizeTerminates ==
  /\ InFinalize ~> ~InFinalize
  /\ [](call.fn = "set_state_finalize" /\ call.ret = "Ok" => FinalizeAsClaimed)
  /\ [](call.fn = "set_state_finalize" => call.height <= Height(call.sync_hash))

\* The call for shard 0 before block 4 has returned Ok after writing the
\* ChunkExtra of the blocks 2 and 3.
C37_Witness ==
  /\ call.fn = "set_state_finalize"
  /\ call.ret = "Ok"
  /\ call.sync_hash = 4
  /\ call.wrote = {2, 3}
  /\ call.visited = <<3, 4>>

\* The call for shard 1 before block 6 has passed height 6, which has no
\* block, and returned Ok.
C37_WitnessSkip ==
  /\ call.fn = "set_state_finalize"
  /\ call.ret = "Ok"
  /\ call.sync_hash = 6
  /\ call.skipped = {6}

\* ------------------------------------------------------------------------
\* The arguments of combine_maybe_hashes
\* ------------------------------------------------------------------------
\* C38: in every call of get_block_proof over the block merkle trees of a
\* chain of blocks appended in ordinal order, no call of
\* combine_maybe_hashes has a left node that is missing and a right node
\* that is there.
C38_NoRightWithoutLeft ==
  call.fn = "get_block_proof" =>
    \A c \in call.combines : ~(c[1] = None /\ c[2] # None)

\* The proof of block 0 under a head of ordinal 5 has combined two nodes,
\* a node with nothing to its right, and nothing with nothing.
C38_Witness ==
  /\ call.fn = "get_block_proof"
  /\ call.block_hash = 0 /\ call.head_block_hash = 5
  /\ call.ret.ok
  /\ \E c \in call.combines : c[1] # None /\ c[2] # None
  /\ \E c \in call.combines : c[1] # None /\ c[2] = None
  /\ \E c \in call.combines : c[1] = None /\ c[2] = None

\* ------------------------------------------------------------------------
\* The three cases of a shard in apply_chunks_preprocessing
\* ------------------------------------------------------------------------
ApplyChunksModes == {"NotCaughtUp", "IsCaughtUp", "CatchingUp"}

\* split_state_roots.is_some() in ChainUpdate::apply_chunks_preprocessing,
\* get_split_state_roots having found the roots.
split_state_roots_is_some(mode, will_shard_layout_change, cares_about_shard_next_epoch) ==
  LET need_to_split_states == will_shard_layout_change /\ cares_about_shard_next_epoch
  IN IF need_to_split_states THEN mode \in {"IsCaughtUp", "CatchingUp"} ELSE FALSE

\* What ChainUpdate::apply_chunks_preprocessing does for one shard: the kind
\* of job it pushes, "none", or "panic" when the assertion of case 3 fails.
shard_case(mode, will_shard_layout_change, cares_this_epoch, cares_next_epoch, new_chunk) ==
  IF should_apply_transactions(mode, cares_this_epoch, cares_next_epoch)
  THEN IF new_chunk THEN "SameHeight" ELSE "DifferentHeight"
  ELSE IF split_state_roots_is_some(mode, will_shard_layout_change, cares_next_epoch)
    THEN IF mode = "CatchingUp" /\ cares_this_epoch
           THEN "SplitState" ELSE "panic"
  ELSE "none"

\* The loop over the shards, which ends at the first panic.
RECURSIVE shard_cases(_, _, _, _)
shard_cases(mode, will_shard_layout_change, shards, shard_id) ==
  IF shard_id > Len(shards) THEN <<>>
  ELSE LET case(c) == IF c = "panic" THEN <<c>>
                      ELSE <<c>> \o shard_cases(mode, will_shard_layout_change,
                                                shards, shard_id + 1)
       IN case(shard_case(mode, will_shard_layout_change,
                          shards[shard_id].cares_about_shard_this_epoch,
                          shards[shard_id].cares_about_shard_next_epoch,
                          shards[shard_id].new_chunk))

ShardInputs ==
  [cares_about_shard_this_epoch : BOOLEAN, cares_about_shard_next_epoch : BOOLEAN,
   new_chunk : BOOLEAN]

\* apply_chunks_preprocessing for a block of two shards, the runtime
\* answering anything about the shards and the next epoch.
ApplyChunksPreprocessing(mode, will_shard_layout_change, shards) ==
  /\ call = NoCall
  /\ call' = [fn |-> "apply_chunks_preprocessing", mode |-> mode,
              will_shard_layout_change |-> will_shard_layout_change,
              shards |-> shards,
              cases |-> shard_cases(mode, will_shard_layout_change, shards, 1)]
  /\ UNCHANGED <<chain, called>>

NextModes ==
  \E mode \in ApplyChunksModes, will_shard_layout_change \in BOOLEAN,
     shards \in [1..2 -> ShardInputs] :
    ApplyChunksPreprocessing(mode, will_shard_layout_change, shards)

SpecModes == Init /\ [][NextModes]_vars

\* C39: in every call of apply_chunks_preprocessing, whatever the mode and
\* whatever the runtime says of caring about a shard in this epoch, in the
\* next epoch and of the shard layout changing, the assertion of case 3
\* holds: a shard whose transactions are not applied and whose split state
\* roots were fetched is met only in mode CatchingUp and only when the node
\* cares about the shard in this epoch.
C39_SplitOnlyWhenCatchingUp ==
  call.fn = "apply_chunks_preprocessing" =>
    /\ \A i \in DOMAIN call.cases : call.cases[i] # "panic"
    /\ Len(call.cases) = Len(call.shards)
    /\ \A i \in DOMAIN call.cases :
         call.cases[i] = "SplitState" <=>
           /\ call.mode = "CatchingUp"
           /\ call.will_shard_layout_change
           /\ call.shards[i].cares_about_shard_this_epoch
           /\ call.shards[i].cares_about_shard_next_epoch

\* A catch-up before a change of the shard layout met a shard that the node
\* tracks in both epochs and pushed the job that updates its split states.
C39_Witness ==
  /\ call.fn = "apply_chunks_preprocessing"
  /\ call.mode = "CatchingUp"
  /\ call.cases[1] = "SplitState"
  /\ call.cases[2] = "DifferentHeight"

\* ------------------------------------------------------------------------
\* The fields of a ChunkExtra
\* ------------------------------------------------------------------------
\* ChunkExtra::new
ChunkExtra_new(state_root, outcome_root, proposals, gas_used, gas_limit, balance_burnt) ==
  [state_root |-> state_root, outcome_root |-> outcome_root,
   validator_proposals |-> proposals, gas_used |-> gas_used,
   gas_limit |-> gas_limit, balance_burnt |-> balance_burnt]

\* The ChunkExtra that Chain::new saves for a shard of the genesis block.
GenesisChunkExtra == ChunkExtra_new(0, 0, <<>>, 0, 1, 0)

\* The arguments of the apply_transactions call of the job that
\* apply_chunks_preprocessing pushes for a shard without a new chunk.
different_height_job(new_extra) ==
  [state_root |-> new_extra.state_root, receipts |-> <<>>, transactions |-> <<>>,
   validator_proposals |-> new_extra.validator_proposals,
   gas_limit |-> new_extra.gas_limit, is_new_chunk |-> FALSE]

\* The same for a shard with a new chunk.
same_height_job(chunk) ==
  [state_root |-> chunk.prev_state_root, receipts |-> chunk.receipts,
   transactions |-> chunk.transactions,
   validator_proposals |-> chunk.validator_proposals,
   gas_limit |-> chunk.gas_limit, is_new_chunk |-> TRUE]

\* A ChunkExtra built from the result of the application in both arms: what
\* the frame of the arm without a new chunk is tested against.
chunk_extra_of_result_anew(prev_extra, result) ==
  ChunkExtra_new(result.apply_result.new_root, result.apply_result.outcome_root,
                 result.apply_result.validator_proposals,
                 result.apply_result.total_gas_burnt,
                 IF result.kind = "SameHeight" THEN result.gas_limit
                 ELSE prev_extra.gas_limit,
                 result.apply_result.total_balance_burnt)

\* The ChunkExtra that ChainUpdate::process_apply_chunk_result saves for the
\* block, prev_extra being the ChunkExtra of the prev block.
chunk_extra_of_result(prev_extra, result) ==
  IF result.kind = "SameHeight"
  THEN ChunkExtra_new(result.apply_result.new_root, result.apply_result.outcome_root,
                      result.apply_result.validator_proposals,
                      result.apply_result.total_gas_burnt, result.gas_limit,
                      result.apply_result.total_balance_burnt)
  ELSE [prev_extra EXCEPT !.state_root = result.apply_result.new_root]

\* What the runtime may return for an application.
ApplyResults ==
  [new_root : {1, 2}, outcome_root : {0, 1}, validator_proposals : {<<>>, <<"v">>},
   total_gas_burnt : {0, 1}, total_balance_burnt : {0, 1}]

\* The new chunks a block may carry for the shard after a prev block whose
\* ChunkExtra has the state root.
NewChunks(state_root) ==
  [prev_state_root : {state_root}, receipts : {<<>>, <<"r">>},
   transactions : {<<"t">>}, validator_proposals : {<<>>}, gas_limit : {1, 2}]

\* The blocks of a chain whose ChunkExtra are followed.
MaxExtraBlocks == 3

\* The shard of one more block of a chain goes through
\* apply_chunks_preprocessing, the job and process_apply_chunk_result, with
\* a new chunk or without one.
ApplyChunkOfShard(new_chunk) ==
  /\ call = NoCall \/ (call.fn = "apply_chunk" /\ call.height < MaxExtraBlocks)
  /\ LET prev_extra == IF call = NoCall THEN GenesisChunkExtra ELSE call.chunk_extra
         height == IF call = NoCall THEN 1 ELSE call.height + 1
     IN \E apply_result \in ApplyResults, chunk \in NewChunks(prev_extra.state_root) :
          /\ ~new_chunk => chunk.gas_limit = 1 /\ chunk.receipts = <<>>
          /\ call' = [fn |-> "apply_chunk", height |-> height, new_chunk |-> new_chunk,
                      prev_extra |-> prev_extra,
                      job |-> IF new_chunk THEN same_height_job(chunk)
                              ELSE different_height_job(prev_extra),
                      apply_result |-> apply_result,
                      chunk_extra |->
                        chunk_extra_of_result(prev_extra,
                          [kind |-> IF new_chunk THEN "SameHeight" ELSE "DifferentHeight",
                           gas_limit |-> chunk.gas_limit,
                           apply_result |-> apply_result])]
  /\ UNCHANGED <<chain, called>>

NextChunkExtra == \E new_chunk \in BOOLEAN : ApplyChunkOfShard(new_chunk)

SpecChunkExtra == Init /\ [][NextChunkExtra]_vars

\* C40: the ChunkExtra saved for a shard of a block that has no new chunk
\* for it has the outcome root, the validator proposals, the gas used, the
\* gas limit and the balance burnt of the ChunkExtra of the prev block, and
\* the state root that the runtime returned for an application to the state
\* root of the prev block with no transactions and no receipts.
C40_ContinuationCopiesChunkExtra ==
  (call.fn = "apply_chunk" /\ ~call.new_chunk) =>
    /\ call.chunk_extra.outcome_root = call.prev_extra.outcome_root
    /\ call.chunk_extra.validator_proposals = call.prev_extra.validator_proposals
    /\ call.chunk_extra.gas_used = call.prev_extra.gas_used
    /\ call.chunk_extra.gas_limit = call.prev_extra.gas_limit
    /\ call.chunk_extra.balance_burnt = call.prev_extra.balance_burnt
    /\ call.chunk_extra.state_root = call.apply_result.new_root
    /\ call.job.state_root = call.prev_extra.state_root
    /\ call.job.transactions = <<>> /\ call.job.receipts = <<>>

\* A block without a new chunk followed a block whose chunk had burnt gas
\* and balance and had proposals; the runtime returned another root and no
\* gas, no balance and no proposals, and only the root was taken.
C40_Witness ==
  /\ call.fn = "apply_chunk" /\ ~call.new_chunk
  /\ call.height = 2
  /\ call.prev_extra = ChunkExtra_new(1, 1, <<"v">>, 1, 2, 1)
  /\ call.apply_result = [new_root |-> 2, outcome_root |-> 0, validator_proposals |-> <<>>,
                          total_gas_burnt |-> 0, total_balance_burnt |-> 0]
  /\ call.chunk_extra = ChunkExtra_new(2, 1, <<"v">>, 1, 2, 1)

====
